---- MODULE Spec2Model ----
(***************************************************************************)
(* Key paths and patch application of redbadger/pathogen.                  *)
(*                                                                         *)
(* A value tree is patched by patch_keypath, a recursive walk that         *)
(* consumes a sequence of key path elements and applies an Update or a     *)
(* Splice at the end of it.  Paths are built by the typed builder          *)
(* (KeyPath, Navigable), erased to KeyPathFrom, carried by Change /        *)
(* ChangeOf and rebased / downcast.                                        *)
(***************************************************************************)
EXTENDS Integers, Sequences, FiniteSets, TLC

\* ------------------------------------------------------------------------
\* Bounds of the model
\* ------------------------------------------------------------------------
MaxInt == 1
MaxLen == 2
MaxKey == 1
MaxPath == 2
WordBits == 3

\* ------------------------------------------------------------------------
\* Key path elements (pathogen/src/key_path.rs)
\* ------------------------------------------------------------------------
VariantTagType == {"External", "Internal", "Adjacent", "Untagged"}

Field(name) == [type |-> "field", key |-> name]
Variant(name, tagType) == [type |-> "variant", key |-> name, tag |-> tagType]
Index(position) == [type |-> "index", key |-> position]
StringKey(k) == [type |-> "stringKey", key |-> k]

\* usize::to_string / usize::from_str on the short decimal strings the model uses
Decimals == <<"0", "1", "2", "3">>
to_string(n) == Decimals[n + 1]
from_str(s) ==
    IF \E n \in 0..(Len(Decimals) - 1) : Decimals[n + 1] = s
    THEN [ok |-> TRUE, v |-> CHOOSE n \in 0..(Len(Decimals) - 1) : Decimals[n + 1] = s]
    ELSE [ok |-> FALSE, v |-> 0]

\* ------------------------------------------------------------------------
\* Types of the value tree: the scalar leaves usize and f64, Vec<T>,
\* BTreeMap<usize, V>, Option<T>, and the derived record and tagged union
\* types.
\* ------------------------------------------------------------------------
Usize == [k |-> "leaf", prim |-> "usize"]
F64 == [k |-> "leaf", prim |-> "f64"]
VecOf(t) == [k |-> "vec", elem |-> t]
MapOf(t) == [k |-> "map", val |-> t]
OptionOf(t) == [k |-> "opt", inner |-> t]
\* a named field, and the i-th unnamed field of a tuple struct or tuple variant;
\* skip, skip_all and direct are the keypath_mutable attributes of the item,
\* rename and rename_all its serde attributes (an Option: <<>> or <<value>>).
\* name is the name serde gives the item, under which a value holds it; ident
\* is the identifier, as its characters (the identifier of an item of a type
\* without serde attributes is kept whole: no rule looks into it)
FieldDecl(n, t) ==
    [name |-> n, ident |-> <<n>>, rename |-> <<>>, named |-> TRUE, ty |-> t, skip |-> FALSE]
SkippedField(n, t) ==
    [name |-> n, ident |-> <<n>>, rename |-> <<>>, named |-> TRUE, ty |-> t, skip |-> TRUE]
TupleField(i, t) ==
    [name |-> to_string(i), ident |-> <<>>, rename |-> <<>>, named |-> FALSE, ty |-> t,
     skip |-> FALSE]
\* a named field with serde attributes or under a container's rename_all
SerdeField(ident, rename, serde_name, t) ==
    [name |-> serde_name, ident |-> ident, rename |-> rename, named |-> TRUE, ty |-> t,
     skip |-> FALSE]
StructOf(fs) == [k |-> "struct", fields |-> fs, skip_all |-> FALSE, rename_all |-> <<>>]
SerdeStructOf(rename_all, fs) ==
    [k |-> "struct", fields |-> fs, skip_all |-> FALSE, rename_all |-> rename_all]
VariantDecl(n, fs) ==
    [name |-> n, ident |-> <<n>>, rename |-> <<>>, rename_all |-> <<>>, fields |-> fs,
     skip |-> FALSE, skip_all |-> FALSE]
SerdeVariant(ident, rename, rename_all, serde_name, fs) ==
    [name |-> serde_name, ident |-> ident, rename |-> rename, rename_all |-> rename_all,
     fields |-> fs, skip |-> FALSE, skip_all |-> FALSE]
EnumOf(tagType, vs) ==
    [k |-> "enum", tag |-> tagType, variants |-> vs, skip_all |-> FALSE, direct |-> FALSE,
     rename_all |-> <<>>]
SerdeEnumOf(rename_all, tagType, vs) ==
    [k |-> "enum", tag |-> tagType, variants |-> vs, skip_all |-> FALSE, direct |-> FALSE,
     rename_all |-> rename_all]
DirectEnumOf(tagType, vs) ==
    [k |-> "enum", tag |-> tagType, variants |-> vs, skip_all |-> FALSE, direct |-> TRUE,
     rename_all |-> <<>>]

\* Ident::to_string
RECURSIVE ident_to_string(_)
ident_to_string(ident) ==
    IF Len(ident) = 0 THEN "" ELSE Head(ident) \o ident_to_string(Tail(ident))
\* str::to_lowercase / char::to_uppercase, on ASCII letters
LowerLetters ==
    <<"a", "b", "c", "d", "e", "f", "g", "h", "i", "j", "k", "l", "m",
      "n", "o", "p", "q", "r", "s", "t", "u", "v", "w", "x", "y", "z">>
UpperLetters ==
    <<"A", "B", "C", "D", "E", "F", "G", "H", "I", "J", "K", "L", "M",
      "N", "O", "P", "Q", "R", "S", "T", "U", "V", "W", "X", "Y", "Z">>
to_lowercase(chr) ==
    IF \E i \in 1..Len(UpperLetters) : UpperLetters[i] = chr
    THEN LowerLetters[CHOOSE i \in 1..Len(UpperLetters) : UpperLetters[i] = chr]
    ELSE chr
to_uppercase(chr) ==
    IF \E i \in 1..Len(LowerLetters) : LowerLetters[i] = chr
    THEN UpperLetters[CHOOSE i \in 1..Len(LowerLetters) : LowerLetters[i] = chr]
    ELSE chr
\* the loop of field_name over ident_str[1..].chars()
RECURSIVE renamed_rest(_, _)
renamed_rest(chars, upcase) ==
    IF Len(chars) = 0 THEN ""
    ELSE IF Head(chars) = "_" THEN renamed_rest(Tail(chars), TRUE)
    ELSE IF upcase THEN to_uppercase(Head(chars)) \o renamed_rest(Tail(chars), FALSE)
    ELSE Head(chars) \o renamed_rest(Tail(chars), FALSE)
\* field_name: the name of a field or variant in a path element.  A
\* rename_all other than camelCase stops the compilation.
field_name(ident, container_serde_attrs, item_serde_attrs) ==
    IF item_serde_attrs.rename # <<>> THEN item_serde_attrs.rename[1]
    ELSE IF container_serde_attrs.rename_all = <<>> THEN ident_to_string(ident)
    ELSE to_lowercase(ident[1]) \o renamed_rest(Tail(ident), FALSE)

FieldNames(fs) == {fs[i].name : i \in 1..Len(fs)}
\* the pattern of the match arm of a field: the name of a named field, the
\* position of an unnamed one
arm_pattern(container, field) ==
    IF field.named THEN field_name(field.ident, container, field) ELSE field.name
\* the patterns the generated match has an arm for, and the field of an arm
match_arms(container) ==
    {arm_pattern(container, container.fields[i]) :
        i \in {j \in 1..Len(container.fields) : ~container.fields[j].skip}}
arm_field(container, pattern) ==
    container.fields[CHOOSE i \in 1..Len(container.fields) :
                        /\ ~container.fields[i].skip
                        /\ arm_pattern(container, container.fields[i]) = pattern]
FieldType(fs, n) == fs[CHOOSE i \in 1..Len(fs) : fs[i].name = n].ty
VariantNames(t) == {t.variants[i].name : i \in 1..Len(t.variants)}
VariantOf(t, n) == t.variants[CHOOSE i \in 1..Len(t.variants) : t.variants[i].name = n]
is_tuple_variant(variant) == \E i \in 1..Len(variant.fields) : ~variant.fields[i].named

\* Values of a type.  A sequence is a TLA+ sequence, an optional is <<>> (None)
\* or <<v>> (Some(v)), a map is a function on its key set, a record is a
\* function on its field names, a union value is its case with its payload.
\* A usize is a number; an f64 is a finite number or NaN.
Float(n) == [fl |-> "finite", n |-> n]
NaN == [fl |-> "nan", n |-> 0]
NoFields == [n \in {} |-> 0]
None == <<>>
Some(v) == <<v>>
Case(name, payload) == [case |-> name, p |-> payload]

RECURSIVE Values(_)
RECURSIVE FieldValues(_)
FieldValues(fs) ==
    IF Len(fs) = 0 THEN {NoFields}
    ELSE {(Head(fs).name :> v) @@ r : v \in Values(Head(fs).ty), r \in FieldValues(Tail(fs))}
Values(t) ==
    CASE t.k = "leaf" ->
            IF t.prim = "f64" THEN {Float(n) : n \in 0..MaxInt} \cup {NaN} ELSE 0..MaxInt
      [] t.k = "vec" -> UNION {[1..n -> Values(t.elem)] : n \in 0..MaxLen}
      [] t.k = "opt" -> {None} \cup {Some(v) : v \in Values(t.inner)}
      [] t.k = "map" -> UNION {[ks -> Values(t.val)] : ks \in SUBSET (0..MaxKey)}
      [] t.k = "struct" -> FieldValues(t.fields)
      [] t.k = "enum" ->
            UNION {{Case(t.variants[i].name, p) : p \in FieldValues(t.variants[i].fields)}
                   : i \in 1..Len(t.variants)}

\* the model keeps the tree within these sizes
RECURSIVE Bounded(_, _)
Bounded(t, v) ==
    CASE t.k = "leaf" -> IF t.prim = "f64" THEN v.n \in 0..MaxInt ELSE v \in 0..MaxInt
      [] t.k = "vec" -> Len(v) <= MaxLen /\ \A i \in 1..Len(v) : Bounded(t.elem, v[i])
      [] t.k = "opt" -> IF v = None THEN TRUE ELSE Bounded(t.inner, v[1])
      [] t.k = "map" -> DOMAIN v \subseteq 0..MaxKey /\ \A x \in DOMAIN v : Bounded(t.val, v[x])
      [] t.k = "struct" -> \A i \in 1..Len(t.fields) : Bounded(t.fields[i].ty, v[t.fields[i].name])
      [] t.k = "enum" ->
            LET fs == VariantOf(t, v.case).fields
            IN \A i \in 1..Len(fs) : Bounded(fs[i].ty, v.p[fs[i].name])

\* ------------------------------------------------------------------------
\* Wire values (serde_json::Value) and the codec of the value types:
\* serde_json::to_value / serde_json::from_value with serde's default
\* representations (externally tagged unions, optionals as null-or-value,
\* maps with their keys as strings, a float that is not finite as null).
\* ------------------------------------------------------------------------
JNull == [j |-> "null"]
JNum(n) == [j |-> "num", n |-> n]
JFloat(n) == [j |-> "float", n |-> n]
JStr(s) == [j |-> "str", s |-> s]
JArr(items) == [j |-> "arr", items |-> items]
JObj(f) == [j |-> "obj", f |-> f]

RECURSIVE to_value(_, _)
FieldsToValue(fs, p, tuple) ==
    IF tuple
    THEN JArr([i \in 1..Len(fs) |-> to_value(fs[i].ty, p[fs[i].name])])
    ELSE JObj([n \in FieldNames(fs) |-> to_value(FieldType(fs, n), p[n])])
to_value(t, v) ==
    CASE t.k = "leaf" ->
            IF t.prim = "f64"
            THEN IF v.fl = "finite" THEN JFloat(v.n) ELSE JNull
            ELSE JNum(v)
      [] t.k = "vec" -> JArr([i \in 1..Len(v) |-> to_value(t.elem, v[i])])
      [] t.k = "opt" -> IF v = None THEN JNull ELSE to_value(t.inner, v[1])
      [] t.k = "map" ->
            JObj([s \in {to_string(x) : x \in DOMAIN v} |-> to_value(t.val, v[from_str(s).v])])
      [] t.k = "struct" -> FieldsToValue(t.fields, v, FALSE)
      [] t.k = "enum" ->
            LET variant == VariantOf(t, v.case)
                fs == variant.fields
            IN CASE Len(fs) = 0 -> JStr(v.case)
                 [] is_tuple_variant(variant) /\ Len(fs) = 1 ->
                        JObj(v.case :> to_value(fs[1].ty, v.p[fs[1].name]))
                 [] OTHER -> JObj(v.case :> FieldsToValue(fs, v.p, is_tuple_variant(variant)))

Decoded(v) == [ok |-> TRUE, v |-> v]
DecodeError == [ok |-> FALSE, v |-> 0]

RECURSIVE from_value(_, _)
\* a record body: an object holding every field (a missing optional field is
\* None, unknown members are ignored), or an array of exactly the fields
FieldsFromValue(fs, j, tupleOnly) ==
    CASE j.j = "arr" ->
            IF Len(j.items) = Len(fs)
               /\ \A i \in 1..Len(fs) : from_value(fs[i].ty, j.items[i]).ok
            THEN Decoded([n \in FieldNames(fs) |->
                    from_value(FieldType(fs, n),
                               j.items[CHOOSE i \in 1..Len(fs) : fs[i].name = n]).v])
            ELSE DecodeError
      [] j.j = "obj" /\ ~tupleOnly ->
            IF \A i \in 1..Len(fs) :
                  IF fs[i].name \in DOMAIN j.f
                  THEN from_value(fs[i].ty, j.f[fs[i].name]).ok
                  ELSE fs[i].ty.k = "opt"
            THEN Decoded([n \in FieldNames(fs) |->
                    IF n \in DOMAIN j.f THEN from_value(FieldType(fs, n), j.f[n]).v ELSE None])
            ELSE DecodeError
      [] OTHER -> DecodeError
from_value(t, j) ==
    CASE t.k = "leaf" ->
            IF t.prim = "f64"
            THEN IF j.j \in {"num", "float"} THEN Decoded(Float(j.n)) ELSE DecodeError
            ELSE IF j.j = "num" /\ j.n >= 0 THEN Decoded(j.n) ELSE DecodeError
      [] t.k = "vec" ->
            IF j.j = "arr" /\ \A i \in 1..Len(j.items) : from_value(t.elem, j.items[i]).ok
            THEN Decoded([i \in 1..Len(j.items) |-> from_value(t.elem, j.items[i]).v])
            ELSE DecodeError
      [] t.k = "opt" ->
            IF j.j = "null" THEN Decoded(None)
            ELSE IF from_value(t.inner, j).ok THEN Decoded(Some(from_value(t.inner, j).v))
            ELSE DecodeError
      [] t.k = "map" ->
            IF j.j = "obj"
               /\ \A s \in DOMAIN j.f : from_str(s).ok /\ from_value(t.val, j.f[s]).ok
            THEN Decoded([x \in {from_str(s).v : s \in DOMAIN j.f} |->
                            from_value(t.val, j.f[to_string(x)]).v])
            ELSE DecodeError
      [] t.k = "struct" -> FieldsFromValue(t.fields, j, FALSE)
      [] t.k = "enum" ->
            CASE j.j = "str" ->
                    IF j.s \in VariantNames(t) /\ Len(VariantOf(t, j.s).fields) = 0
                    THEN Decoded(Case(j.s, NoFields))
                    ELSE DecodeError
              [] j.j = "obj" ->
                    IF Cardinality(DOMAIN j.f) = 1 /\ DOMAIN j.f \subseteq VariantNames(t)
                    THEN LET name == CHOOSE n \in DOMAIN j.f : TRUE
                             variant == VariantOf(t, name)
                             fs == variant.fields
                             body == j.f[name]
                             payload ==
                                CASE Len(fs) = 0 ->
                                        IF body.j = "null" THEN Decoded(NoFields) ELSE DecodeError
                                  [] is_tuple_variant(variant) /\ Len(fs) = 1 ->
                                        IF from_value(fs[1].ty, body).ok
                                        THEN Decoded(fs[1].name :> from_value(fs[1].ty, body).v)
                                        ELSE DecodeError
                                  [] OTHER -> FieldsFromValue(fs, body, is_tuple_variant(variant))
                         IN IF payload.ok THEN Decoded(Case(name, payload.v)) ELSE DecodeError
                    ELSE DecodeError
              [] OTHER -> DecodeError

\* ------------------------------------------------------------------------
\* Patches and results (key_path/src/lib.rs, key_path_mutable.rs)
\* ------------------------------------------------------------------------
Update(kp, v) == [type |-> "update", key_path |-> kp, value |-> v]
Splice(kp, vs, st, rp) ==
    [type |-> "splice", key_path |-> kp, value |-> vs, start |-> st, replace |-> rp]

KeyPathError ==
    {"CannotMutateNone", "CannotMutatePrimitiveChildren", "CannotSpliceType",
     "DeserializationError", "MustMutateEnumVariantWithField", "MustMutateEnumWithVariant",
     "MustMutateStructWithField", "MustMutateVectorWithIndex", "MustMutateMapWithStringKey",
     "UnknownField", "UnknownStringKey", "UnknownVariantOrField"}

\* What a call leaves behind: Ok(()) or Err(kind), or an abort (a panic of an
\* index expression: of a sequence of the tree, self[key] and the splice
\* range, or of the key slice itself, keys[1]), each with the value as the
\* call leaves it.
Aborts == {"IndexOutOfRange", "KeysOutOfRange", "Overflow"}
Ok(v) == [res |-> "Ok", val |-> v]
Err(kind, v) == [res |-> kind, val |-> v]
Abort(why, v) == [res |-> why, val |-> v]

\* vec_splice over start..=end, a range that includes its end
\* usize: the machine word, of WordBits bits
usize_MAX == 2^WordBits - 1
\* the build's overflow-checks setting: on in a debug build, off in a
\* release build
VARIABLE overflow_checks
\* start + replace on usize: with overflow checks a sum beyond usize::MAX
\* panics, without them it wraps around
usize_add(a, b) ==
    IF a + b <= usize_MAX THEN [ok |-> TRUE, v |-> a + b]
    ELSE IF overflow_checks THEN [ok |-> FALSE, v |-> 0]
    ELSE [ok |-> TRUE, v |-> (a + b) % 2^WordBits]

\* vec_splice that looks at the end of the range only
vec_splice_checks_end(self, start, end, replacements) ==
    IF end > Len(self)
    THEN Abort("IndexOutOfRange", self)
    ELSE Ok(SubSeq(self, 1, IF start < Len(self) THEN start ELSE Len(self))
            \o replacements \o SubSeq(self, end + 1, Len(self)))

vec_splice_inclusive(self, start, end, replacements) ==
    IF start > end \/ end > Len(self)
    THEN Abort("IndexOutOfRange", self)
    ELSE Ok(SubSeq(self, 1, start) \o replacements \o SubSeq(self, end + 2, Len(self)))

\* Vec::splice(start..end, replacements): the range is checked before any
\* element is moved
vec_splice(self, start, end, replacements) ==
    IF start > end \/ end > Len(self)
    THEN Abort("IndexOutOfRange", self)
    ELSE Ok(SubSeq(self, 1, start) \o replacements \o SubSeq(self, end + 1, Len(self)))

RECURSIVE patch_keypath(_, _, _, _)

\* Vec_patch_keypath that removes the replaced range before it decodes the
\* replacements
Vec_patch_keypath_drains_first(t, self, keys, patch) ==
    IF Len(keys) = 0
    THEN IF patch.type = "splice"
         THEN IF \A i \in 1..Len(patch.value) : from_value(t.elem, patch.value[i]).ok
              THEN LET replacements ==
                          [i \in 1..Len(patch.value) |-> from_value(t.elem, patch.value[i]).v]
                   IN vec_splice(self, patch.start, patch.start + patch.replace, replacements)
              ELSE LET drained ==
                          vec_splice(self, patch.start, patch.start + patch.replace, <<>>)
                   IN IF drained.res = "Ok"
                      THEN Err("DeserializationError", drained.val)
                      ELSE drained
         ELSE LET replacement == from_value(t, patch.value)
              IN IF replacement.ok
                 THEN vec_splice(self, 0, Len(self), replacement.v)
                 ELSE Err("DeserializationError", self)
    ELSE IF keys[1].type # "index"
    THEN Err("MustMutateVectorWithIndex", self)
    ELSE IF keys[1].key >= Len(self)
    THEN Abort("IndexOutOfRange", self)
    ELSE LET r == patch_keypath(t.elem, self[keys[1].key + 1], Tail(keys), patch)
         IN [res |-> r.res, val |-> [self EXCEPT ![keys[1].key + 1] = r.val]]

\* Vec_patch_keypath that returns an error for a position past the end
Vec_patch_keypath_returns_range_error(t, self, keys, patch) ==
    IF Len(keys) = 0
    THEN IF patch.type = "splice"
         THEN IF \A i \in 1..Len(patch.value) : from_value(t.elem, patch.value[i]).ok
              THEN LET replacements ==
                          [i \in 1..Len(patch.value) |-> from_value(t.elem, patch.value[i]).v]
                   IN vec_splice(self, patch.start, patch.start + patch.replace, replacements)
              ELSE Err("DeserializationError", self)
         ELSE LET replacement == from_value(t, patch.value)
              IN IF replacement.ok
                 THEN vec_splice(self, 0, Len(self), replacement.v)
                 ELSE Err("DeserializationError", self)
    ELSE IF keys[1].type # "index"
    THEN Err("MustMutateVectorWithIndex", self)
    ELSE IF keys[1].key >= Len(self)
    THEN Err("MustMutateVectorWithIndex", self)
    ELSE LET r == patch_keypath(t.elem, self[keys[1].key + 1], Tail(keys), patch)
         IN [res |-> r.res, val |-> [self EXCEPT ![keys[1].key + 1] = r.val]]

\* impl KeyPathMutable for Vec<T>
Vec_patch_keypath(t, self, keys, patch) ==
    IF Len(keys) = 0
    THEN IF patch.type = "splice"
         THEN IF \A i \in 1..Len(patch.value) : from_value(t.elem, patch.value[i]).ok
              THEN LET replacements ==
                          [i \in 1..Len(patch.value) |-> from_value(t.elem, patch.value[i]).v]
                       end == usize_add(patch.start, patch.replace)
                   IN IF end.ok
                      THEN vec_splice(self, patch.start, end.v, replacements)
                      ELSE Abort("Overflow", self)
              ELSE Err("DeserializationError", self)
         ELSE LET replacement == from_value(t, patch.value)
              IN IF replacement.ok
                 THEN vec_splice(self, 0, Len(self), replacement.v)
                 ELSE Err("DeserializationError", self)
    ELSE IF keys[1].type # "index"
    THEN Err("MustMutateVectorWithIndex", self)
    ELSE IF keys[1].key >= Len(self)
    THEN Abort("IndexOutOfRange", self)
    ELSE LET r == patch_keypath(t.elem, self[keys[1].key + 1], Tail(keys), patch)
         IN [res |-> r.res, val |-> [self EXCEPT ![keys[1].key + 1] = r.val]]

\* map_insert that leaves the written entry alone in the map
map_insert_alone(self, key, value) == [x \in {key} |-> value]

\* BTreeMap::insert and the write through BTreeMap::get_mut
map_insert(self, key, value) == [x \in DOMAIN self \cup {key} |-> IF x = key THEN value ELSE self[x]]

\* BTreeMap_patch_keypath without the insert of a last key: the key has to
\* be there
BTreeMap_patch_keypath_no_insert(t, self, keys, patch) ==
    IF Len(keys) = 0
    THEN IF patch.type = "update"
         THEN LET value == from_value(t, patch.value)
              IN IF value.ok THEN Ok(value.v) ELSE Err("DeserializationError", self)
         ELSE Err("CannotSpliceType", self)
    ELSE IF keys[1].type # "stringKey"
    THEN Err("MustMutateMapWithStringKey", self)
    ELSE IF ~from_str(keys[1].key).ok
    THEN Err("UnknownStringKey", self)
    ELSE LET key == from_str(keys[1].key).v
         IN IF key \in DOMAIN self
            THEN LET r == patch_keypath(t.val, self[key], Tail(keys), patch)
                 IN [res |-> r.res, val |-> map_insert(self, key, r.val)]
            ELSE Err("UnknownStringKey", self)

\* BTreeMap_patch_keypath that takes a key that is not there for done
BTreeMap_patch_keypath_ignores_absent(t, self, keys, patch) ==
    IF Len(keys) = 0
    THEN IF patch.type = "update"
         THEN LET value == from_value(t, patch.value)
              IN IF value.ok THEN Ok(value.v) ELSE Err("DeserializationError", self)
         ELSE Err("CannotSpliceType", self)
    ELSE IF keys[1].type # "stringKey"
    THEN Err("MustMutateMapWithStringKey", self)
    ELSE IF ~from_str(keys[1].key).ok
    THEN Err("UnknownStringKey", self)
    ELSE LET key == from_str(keys[1].key).v
         IN IF Len(keys) = 1 /\ patch.type = "update"
            THEN LET value == from_value(t.val, patch.value)
                 IN IF value.ok
                    THEN Ok(map_insert(self, key, value.v))
                    ELSE Err("DeserializationError", self)
            ELSE IF key \in DOMAIN self
            THEN LET r == patch_keypath(t.val, self[key], Tail(keys), patch)
                 IN [res |-> r.res, val |-> map_insert(self, key, r.val)]
            ELSE Ok(self)

\* impl KeyPathMutable for BTreeMap<K, V>, with K = usize
BTreeMap_patch_keypath(t, self, keys, patch) ==
    IF Len(keys) = 0
    THEN IF patch.type = "update"
         THEN LET value == from_value(t, patch.value)
              IN IF value.ok THEN Ok(value.v) ELSE Err("DeserializationError", self)
         ELSE Err("CannotSpliceType", self)
    ELSE IF keys[1].type # "stringKey"
    THEN Err("MustMutateMapWithStringKey", self)
    ELSE IF ~from_str(keys[1].key).ok
    THEN Err("UnknownStringKey", self)
    ELSE LET key == from_str(keys[1].key).v
         IN IF Len(keys) = 1 /\ patch.type = "update"
            THEN LET value == from_value(t.val, patch.value)
                 IN IF value.ok
                    THEN Ok(map_insert(self, key, value.v))
                    ELSE Err("DeserializationError", self)
            ELSE IF key \in DOMAIN self
            THEN LET r == patch_keypath(t.val, self[key], Tail(keys), patch)
                 IN [res |-> r.res, val |-> map_insert(self, key, r.val)]
            ELSE Err("UnknownStringKey", self)

\* Option_patch_keypath that answers for an error of what it holds
Option_patch_keypath_masks_error(t, self, keys, patch) ==
    IF Len(keys) # 0
    THEN IF self # None
         THEN LET r == patch_keypath(t.inner, self[1], keys, patch)
              IN IF r.res = "Ok" THEN [res |-> r.res, val |-> Some(r.val)]
                 ELSE Err("CannotMutateNone", self)
         ELSE Err("CannotMutateNone", self)
    ELSE IF patch.type # "update"
    THEN Err("CannotSpliceType", self)
    ELSE LET value == from_value(t, patch.value)
         IN IF value.ok THEN Ok(value.v) ELSE Err("DeserializationError", self)

\* Option_patch_keypath that takes the first element of the suffix for itself
Option_patch_keypath_consumes(t, self, keys, patch) ==
    IF Len(keys) # 0
    THEN IF self # None
         THEN LET r == patch_keypath(t.inner, self[1], Tail(keys), patch)
              IN [res |-> r.res, val |-> Some(r.val)]
         ELSE Err("CannotMutateNone", self)
    ELSE IF patch.type # "update"
    THEN Err("CannotSpliceType", self)
    ELSE LET value == from_value(t, patch.value)
         IN IF value.ok THEN Ok(value.v) ELSE Err("DeserializationError", self)

\* Option_patch_keypath that hands a Splice at the empty suffix to what it holds
Option_patch_keypath_hands_splice(t, self, keys, patch) ==
    IF Len(keys) # 0
    THEN IF self # None
         THEN LET r == patch_keypath(t.inner, self[1], keys, patch)
              IN [res |-> r.res, val |-> Some(r.val)]
         ELSE Err("CannotMutateNone", self)
    ELSE IF patch.type # "update"
    THEN IF self # None
         THEN LET r == patch_keypath(t.inner, self[1], keys, patch)
              IN [res |-> r.res, val |-> Some(r.val)]
         ELSE Err("CannotSpliceType", self)
    ELSE LET value == from_value(t, patch.value)
         IN IF value.ok THEN Ok(value.v) ELSE Err("DeserializationError", self)

\* Option_patch_keypath that takes a path into None for done
Option_patch_keypath_skips_none(t, self, keys, patch) ==
    IF Len(keys) # 0
    THEN IF self # None
         THEN LET r == patch_keypath(t.inner, self[1], keys, patch)
              IN [res |-> r.res, val |-> Some(r.val)]
         ELSE Ok(self)
    ELSE IF patch.type # "update"
    THEN Err("CannotSpliceType", self)
    ELSE LET value == from_value(t, patch.value)
         IN IF value.ok THEN Ok(value.v) ELSE Err("DeserializationError", self)

\* impl KeyPathMutable for Option<T>
Option_patch_keypath(t, self, keys, patch) ==
    IF Len(keys) # 0
    THEN IF self # None
         THEN LET r == patch_keypath(t.inner, self[1], keys, patch)
              IN [res |-> r.res, val |-> Some(r.val)]
         ELSE Err("CannotMutateNone", self)
    ELSE IF patch.type # "update"
    THEN Err("CannotSpliceType", self)
    ELSE LET value == from_value(t, patch.value)
         IN IF value.ok THEN Ok(value.v) ELSE Err("DeserializationError", self)

\* the scalar impl that looks at the patch kind first
primitive_patch_keypath_splice_first(t, self, keys, patch) ==
    IF patch.type # "update"
    THEN Err("CannotSpliceType", self)
    ELSE IF Len(keys) # 0
    THEN Err("CannotMutatePrimitiveChildren", self)
    ELSE LET value == from_value(t, patch.value)
         IN IF value.ok THEN Ok(value.v) ELSE Err("DeserializationError", self)

\* the scalar impl without the assignment of the decoded value
primitive_patch_keypath_keeps_self(t, self, keys, patch) ==
    IF Len(keys) # 0
    THEN Err("CannotMutatePrimitiveChildren", self)
    ELSE IF patch.type # "update"
    THEN Err("CannotSpliceType", self)
    ELSE LET value == from_value(t, patch.value)
         IN IF value.ok THEN Ok(self) ELSE Err("DeserializationError", self)

\* the scalar impl that takes the path to be the one the patch carries
primitive_patch_keypath_reads_patch(t, self, keys, patch) ==
    IF Len(patch.key_path) # 0
    THEN Err("CannotMutatePrimitiveChildren", self)
    ELSE IF patch.type # "update"
    THEN Err("CannotSpliceType", self)
    ELSE LET value == from_value(t, patch.value)
         IN IF value.ok THEN Ok(value.v) ELSE Err("DeserializationError", self)

\* keypath_mutable_impl!: the scalar types
primitive_patch_keypath(t, self, keys, patch) ==
    IF Len(keys) # 0
    THEN Err("CannotMutatePrimitiveChildren", self)
    ELSE IF patch.type # "update"
    THEN Err("CannotSpliceType", self)
    ELSE LET value == from_value(t, patch.value)
         IN IF value.ok THEN Ok(value.v) ELSE Err("DeserializationError", self)

\* the derived impl of a struct with an arm for every field, skipped or not
derive_struct_arms_for_all(t, self, keys, patch) ==
    IF Len(keys) = 0
    THEN IF patch.type = "update"
         THEN LET value == from_value(t, patch.value)
              IN IF value.ok THEN Ok(value.v) ELSE Err("DeserializationError", self)
         ELSE Err("CannotSpliceType", self)
    ELSE IF keys[1].type # "field"
    THEN Err("MustMutateStructWithField", self)
    ELSE LET key == keys[1].key
         IN IF key \in FieldNames(t.fields)
            THEN LET r == patch_keypath(FieldType(t.fields, key), self[key], Tail(keys), patch)
                 IN [res |-> r.res, val |-> [self EXCEPT ![key] = r.val]]
            ELSE Err("UnknownField", self)

\* the impl that derive(KeyPathMutable) generates for a struct
derive_struct(t, self, keys, patch) ==
    IF Len(keys) = 0
    THEN IF patch.type = "update"
         THEN LET value == from_value(t, patch.value)
              IN IF value.ok THEN Ok(value.v) ELSE Err("DeserializationError", self)
         ELSE Err("CannotSpliceType", self)
    ELSE IF keys[1].type # "field"
    THEN Err("MustMutateStructWithField", self)
    ELSE LET key == keys[1].key
         IN IF t.skip_all THEN Err("UnknownField", self)
            ELSE IF key \in match_arms(t)
            THEN LET field == arm_field(t, key)
                     r == patch_keypath(field.ty, self[field.name], Tail(keys), patch)
                 IN [res |-> r.res, val |-> [self EXCEPT ![field.name] = r.val]]
            ELSE Err("UnknownField", self)

\* the match arm of one variant handing on the whole suffix
variant_match_arm_consumes_none(variant, self, field_name_str, keys, patch) ==
    IF variant.skip_all THEN Err("UnknownVariantOrField", self)
    ELSE IF field_name_str \in match_arms(variant)
    THEN LET field == arm_field(variant, field_name_str)
             r == patch_keypath(field.ty, self.p[field.name], keys, patch)
         IN [res |-> r.res, val |-> Case(self.case, [self.p EXCEPT ![field.name] = r.val])]
    ELSE Err("UnknownVariantOrField", self)

\* the match arm of one variant handing on the suffix less one element only
variant_match_arm_keeps_field(variant, self, field_name_str, keys, patch) ==
    IF variant.skip_all THEN Err("UnknownVariantOrField", self)
    ELSE IF field_name_str \in match_arms(variant)
    THEN LET field == arm_field(variant, field_name_str)
             r == patch_keypath(field.ty, self.p[field.name], SubSeq(keys, 2, Len(keys)), patch)
         IN [res |-> r.res, val |-> Case(self.case, [self.p EXCEPT ![field.name] = r.val])]
    ELSE Err("UnknownVariantOrField", self)

\* the match arm of one variant: tuple_variant_match_arm / struct_variant_match_arm
variant_match_arm(variant, self, field_name_str, keys, patch) ==
    IF variant.skip_all THEN Err("UnknownVariantOrField", self)
    ELSE IF field_name_str \in match_arms(variant)
    THEN LET field == arm_field(variant, field_name_str)
             r == patch_keypath(field.ty, self.p[field.name], SubSeq(keys, 3, Len(keys)), patch)
         IN [res |-> r.res, val |-> Case(self.case, [self.p EXCEPT ![field.name] = r.val])]
    ELSE Err("UnknownVariantOrField", self)

\* a direct arm that hands on the suffix less its first element
direct_tuple_variant_match_arm_consumes(variant, self, keys, patch) ==
    LET name == variant.fields[1].name
        r == patch_keypath(variant.fields[1].ty, self.p[name], Tail(keys), patch)
    IN [res |-> r.res, val |-> Case(self.case, [self.p EXCEPT ![name] = r.val])]

\* the match arm of one variant under direct dispatch: the one payload takes
\* the keys as they are
direct_tuple_variant_match_arm(variant, self, keys, patch) ==
    LET name == variant.fields[1].name
        r == patch_keypath(variant.fields[1].ty, self.p[name], keys, patch)
    IN [res |-> r.res, val |-> Case(self.case, [self.p EXCEPT ![name] = r.val])]

\* the derived impl of an enum, were it to take only a Variant element that
\* carries the enum's own tag encoding
derive_enum_checks_tag(t, self, keys, patch) ==
    IF Len(keys) = 0
    THEN IF patch.type = "update"
         THEN LET value == from_value(t, patch.value)
              IN IF value.ok THEN Ok(value.v) ELSE Err("DeserializationError", self)
         ELSE Err("CannotSpliceType", self)
    ELSE IF t.direct
    THEN direct_tuple_variant_match_arm(VariantOf(t, self.case), self, keys, patch)
    ELSE IF keys[1].type # "variant"
    THEN Err("MustMutateEnumWithVariant", self)
    ELSE IF Len(keys) < 2
    THEN Abort("KeysOutOfRange", self)
    ELSE IF keys[2].type # "field"
    THEN Err("MustMutateEnumVariantWithField", self)
    ELSE LET variant == keys[1].key
             field_name_str == keys[2].key
             current == VariantOf(t, self.case)
             variant_name_str == field_name(current.ident, t, current)
         IN IF t.skip_all THEN Err("UnknownVariantOrField", self)
            ELSE IF current.skip THEN Err("UnknownVariantOrField", self)
            ELSE IF Len(current.fields) # 0 /\ variant = variant_name_str
                    /\ keys[1].tag = t.tag
            THEN variant_match_arm(current, self, field_name_str, keys, patch)
            ELSE Err("UnknownVariantOrField", self)

\* the impl that derive(KeyPathMutable) generates for an enum
derive_enum(t, self, keys, patch) ==
    IF Len(keys) = 0
    THEN IF patch.type = "update"
         THEN LET value == from_value(t, patch.value)
              IN IF value.ok THEN Ok(value.v) ELSE Err("DeserializationError", self)
         ELSE Err("CannotSpliceType", self)
    ELSE IF t.direct
    THEN direct_tuple_variant_match_arm(VariantOf(t, self.case), self, keys, patch)
    ELSE IF keys[1].type # "variant"
    THEN Err("MustMutateEnumWithVariant", self)
    ELSE IF Len(keys) < 2
    THEN Abort("KeysOutOfRange", self)
    ELSE IF keys[2].type # "field"
    THEN Err("MustMutateEnumVariantWithField", self)
    ELSE LET variant == keys[1].key
             field_name_str == keys[2].key
             current == VariantOf(t, self.case)
             variant_name_str == field_name(current.ident, t, current)
         IN IF t.skip_all THEN Err("UnknownVariantOrField", self)
            ELSE IF current.skip THEN Err("UnknownVariantOrField", self)
            ELSE IF Len(current.fields) # 0 /\ variant = variant_name_str
            THEN variant_match_arm(current, self, field_name_str, keys, patch)
            ELSE Err("UnknownVariantOrField", self)

\* KeyPathMutable::patch_keypath, dispatched on the type of self
patch_keypath(t, self, keys, patch) ==
    CASE t.k = "leaf" -> primitive_patch_keypath(t, self, keys, patch)
      [] t.k = "vec" -> Vec_patch_keypath(t, self, keys, patch)
      [] t.k = "map" -> BTreeMap_patch_keypath(t, self, keys, patch)
      [] t.k = "opt" -> Option_patch_keypath(t, self, keys, patch)
      [] t.k = "struct" -> derive_struct(t, self, keys, patch)
      [] t.k = "enum" -> derive_enum(t, self, keys, patch)

\* ------------------------------------------------------------------------
\* The path algebra (pathogen/src/key_path.rs): a path is its element
\* sequence, the Root and Value types are phantom
\* ------------------------------------------------------------------------
unit == <<>>

\* derived PartialEq of KeyPathElement: the variant, then its fields
element_eq(own_element, other_element) ==
    IF own_element.type # other_element.type THEN FALSE ELSE own_element = other_element

\* Vec::extend: each element of the iterator is pushed at the end, in order
RECURSIVE extend(_, _)
extend(path, iter) ==
    IF Len(iter) = 0 THEN path ELSE extend(Append(path, Head(iter)), Tail(iter))

\* appending that extends a clone of next by self
appending_swapped(self, next) == extend(next, self)

\* KeyPath::appending, on a clone of self
appending(self, next) == extend(self, next)

\* KeyPath::prepending
prepending(self, previous) == appending(previous, self)

\* prepending that extends a clone of self by the base key path
KeyPathFrom_prepending_after(self, keypath) == extend(self, keypath)

\* KeyPathFrom::prepending, on a clone of the base key path
KeyPathFrom_prepending(self, keypath) == extend(keypath, self)

\* the loop of is_subpath_of over self.path.iter().zip(other.path.iter())
RECURSIVE zip_equal(_, _)
zip_equal(own, other) ==
    IF Len(own) = 0 \/ Len(other) = 0 THEN TRUE
    ELSE IF ~element_eq(Head(own), Head(other)) THEN FALSE
    ELSE zip_equal(Tail(own), Tail(other))

\* is_subpath_of that lets a path of the same length through
is_subpath_of_or_equal(self, other) ==
    IF Len(other) < Len(self) THEN FALSE ELSE zip_equal(self, other)

\* KeyPathFrom::is_subpath_of
is_subpath_of(self, other) ==
    IF Len(other) <= Len(self) THEN FALSE ELSE zip_equal(self, other)

\* KeyPathFrom::downcast: the elements, with a Value type attached again
KeyPathFrom_downcast(self) == self

\* ------------------------------------------------------------------------
\* Changes (key_path/src/lib.rs).  A Change carries a typed payload (vty is
\* its type T); a ChangeOf carries it as wire values.
\* ------------------------------------------------------------------------
Change_update(key_path, t, value) ==
    [type |-> "update", key_path |-> key_path, vty |-> t, value |-> value]
Change_splice(key_path, t, value, start, replace) ==
    [type |-> "splice", key_path |-> key_path, vty |-> t, value |-> value,
     start |-> start, replace |-> replace]

\* impl From<Change<Root, T>> for ChangeOf<Root>
ChangeOf_from(change) ==
    IF change.type = "update"
    THEN [type |-> "update", key_path |-> change.key_path,
          value |-> to_value(change.vty, change.value)]
    ELSE [type |-> "splice", key_path |-> change.key_path,
          value |-> [i \in 1..Len(change.value) |-> to_value(change.vty, change.value[i])],
          start |-> change.start, replace |-> change.replace]

\* ChangeOf::rebase with start and replace taking each other's place
rebase_appends_base(self, base) ==
    IF self.type = "update"
    THEN [type |-> "update", key_path |-> KeyPathFrom_prepending(base, self.key_path),
          value |-> self.value]
    ELSE [type |-> "splice", key_path |-> KeyPathFrom_prepending(base, self.key_path),
          value |-> self.value, start |-> self.start, replace |-> self.replace]

rebase_swaps_range(self, base) ==
    IF self.type = "update"
    THEN [type |-> "update", key_path |-> KeyPathFrom_prepending(self.key_path, base),
          value |-> self.value]
    ELSE [type |-> "splice", key_path |-> KeyPathFrom_prepending(self.key_path, base),
          value |-> self.value, start |-> self.replace, replace |-> self.start]

\* ChangeOf::rebase
rebase(self, base) ==
    IF self.type = "update"
    THEN [type |-> "update", key_path |-> KeyPathFrom_prepending(self.key_path, base),
          value |-> self.value]
    ELSE [type |-> "splice", key_path |-> KeyPathFrom_prepending(self.key_path, base),
          value |-> self.value, start |-> self.start, replace |-> self.replace]

\* ChangeOf::downcast::<T> with the values of a Splice that do not decode
\* left out instead of failing the whole
downcast_filters(self, t) ==
    IF self.type = "update"
    THEN LET value == from_value(t, self.value)
         IN IF value.ok
            THEN Some(Change_update(KeyPathFrom_downcast(self.key_path), t, value.v))
            ELSE None
    ELSE LET decoded == SelectSeq(self.value, LAMBDA j : from_value(t, j).ok)
         IN Some(Change_splice(KeyPathFrom_downcast(self.key_path), t,
                               [i \in 1..Len(decoded) |-> from_value(t, decoded[i]).v],
                               self.start, self.replace))

\* ChangeOf::downcast::<T>: None, or Some typed change
downcast(self, t) ==
    IF self.type = "update"
    THEN LET value == from_value(t, self.value)
         IN IF value.ok
            THEN Some(Change_update(KeyPathFrom_downcast(self.key_path), t, value.v))
            ELSE None
    ELSE IF \A i \in 1..Len(self.value) : from_value(t, self.value[i]).ok
    THEN Some(Change_splice(KeyPathFrom_downcast(self.key_path), t,
                            [i \in 1..Len(self.value) |-> from_value(t, self.value[i]).v],
                            self.start, self.replace))
    ELSE None

\* impl Display for KeyPathElement
KeyPathElement_fmt(self) ==
    IF self.type \in {"field", "variant"} THEN self.key
    ELSE IF self.type = "index" THEN "[" \o to_string(self.key) \o "]"
    ELSE "[\"" \o self.key \o "\"]"

\* the loop of KeyPathFrom's fmt from element ix on (ix counted from 1)
RECURSIVE fmt_from(_, _)
fmt_from(path, ix) ==
    IF ix > Len(path) THEN ""
    ELSE KeyPathElement_fmt(path[ix])
         \o (IF ix # Len(path) /\ path[ix].type \in {"field", "variant"} THEN "." ELSE "")
         \o fmt_from(path, ix + 1)

\* impl Display for KeyPathFrom
KeyPathFrom_fmt(self) == "." \o fmt_from(self, 1)

\* ------------------------------------------------------------------------
\* The types the engine is run on, and the inputs of a call
\* ------------------------------------------------------------------------
\* struct Rec { a: f64, b: Vec<usize> }
RecT == StructOf(<<FieldDecl("a", F64), FieldDecl("b", VecOf(Usize))>>)
\* struct Pair { a: usize, b: usize }
PairT == StructOf(<<FieldDecl("a", Usize), FieldDecl("b", Usize)>>)
\* enum Union { First(usize), Second { a: usize, b: usize }, Unit }
UnionT ==
    EnumOf("External",
           <<VariantDecl("First", <<TupleField(0, Usize)>>),
             VariantDecl("Second", <<FieldDecl("a", Usize), FieldDecl("b", Usize)>>),
             VariantDecl("Unit", <<>>)>>)
\* struct Skipping { a: usize, #[keypath_mutable(skip)] b: usize }
SkipT == StructOf(<<FieldDecl("a", Usize), SkippedField("b", Usize)>>)
\* #[keypath_mutable(direct_dispatch)] enum Direct { First(Pair), Second(Vec<usize>) }
DirectT ==
    DirectEnumOf("External",
                 <<VariantDecl("First", <<TupleField(0, PairT)>>),
                   VariantDecl("Second", <<TupleField(0, VecOf(Usize))>>)>>)
\* struct First { first: usize }
FirstT == StructOf(<<FieldDecl("first", Usize)>>)
Roots ==
    {Usize, RecT, MapOf(Usize), MapOf(FirstT), OptionOf(VecOf(Usize)), OptionOf(PairT),
     OptionOf(OptionOf(Usize)), UnionT, SkipT, DirectT}

\* The paths of a call follow the types, as the paths of the typed builder
\* do, and leave them by one element: at every node a call may bring any
\* element of the node's own kind (its names, indices and keys, and one the
\* node does not have) or an element of another kind.
VariantNode(variant) ==
    [k |-> "variant", fields |-> variant.fields, rename_all |-> variant.rename_all]
NoNode == [k |-> "none"]
AnyKind == {Field("a"), Variant("First", "External"), Index(0), StringKey("0")}
RECURSIVE Steps(_)
Steps(t) ==
    CASE t.k = "leaf" -> AnyKind
      [] t.k = "opt" -> Steps(t.inner)
      [] t.k = "vec" -> AnyKind \cup {Index(i) : i \in 0..MaxLen}
      [] t.k = "map" ->
            AnyKind \cup {StringKey(to_string(i)) : i \in 0..MaxKey} \cup {StringKey("x")}
      [] t.k = "struct" -> AnyKind \cup {Field(n) : n \in FieldNames(t.fields) \cup {"x"}}
      [] t.k = "enum" ->
            IF t.direct
            THEN UNION {Steps(t.variants[i].fields[1].ty) : i \in 1..Len(t.variants)}
            ELSE AnyKind \cup {Variant(n, t.tag) : n \in VariantNames(t) \cup {"X"}}
                         \cup {Variant(n, "Internal") : n \in VariantNames(t)}
      [] t.k = "variant" -> AnyKind \cup {Field(n) : n \in FieldNames(t.fields) \cup {"x"}}
      [] OTHER -> {}
\* the node an element leads to
RECURSIVE Child(_, _)
Child(t, e) ==
    CASE t.k = "opt" -> Child(t.inner, e)
      [] t.k = "vec" -> IF e.type = "index" THEN t.elem ELSE NoNode
      [] t.k = "map" ->
            IF e.type # "stringKey" THEN NoNode
            ELSE IF from_str(e.key).ok THEN t.val ELSE NoNode
      [] t.k = "struct" ->
            IF e.type # "field" THEN NoNode
            ELSE IF e.key \in FieldNames(t.fields) THEN FieldType(t.fields, e.key) ELSE NoNode
      [] t.k = "enum" ->
            IF t.direct
            THEN LET reached == {Child(t.variants[i].fields[1].ty, e) :
                                    i \in 1..Len(t.variants)} \ {NoNode}
                 IN IF reached = {} THEN NoNode ELSE CHOOSE node \in reached : TRUE
            ELSE IF e.type # "variant" THEN NoNode
            ELSE IF e.key \in VariantNames(t) THEN VariantNode(VariantOf(t, e.key))
            ELSE NoNode
      [] t.k = "variant" ->
            IF e.type # "field" THEN NoNode
            ELSE IF e.key \in FieldNames(t.fields) THEN FieldType(t.fields, e.key) ELSE NoNode
      [] OTHER -> NoNode
RECURSIVE KeySeqs(_, _)
KeySeqs(t, n) ==
    {<<>>} \cup
    IF n = 0 THEN {}
    ELSE UNION {{<<e>> \o ks : ks \in KeySeqs(Child(t, e), n - 1)} : e \in Steps(t)}
\* the type a path is typed to reach
RECURSIVE TypeAt(_, _)
TypeAt(t, ks) == IF Len(ks) = 0 THEN t ELSE TypeAt(Child(t, Head(ks)), Tail(ks))

\* the payloads of a call: for an Update the encodings of the values of the
\* type the path reaches and values that do not decode as it, for a Splice of
\* a sequence every range with decodable and undecodable elements
Payloads(t) ==
    {JStr("s"), JNull, JNum(0), JFloat(0)}
    \cup IF t.k \in {"variant", "none"} THEN {} ELSE {to_value(t, v) : v \in Values(t)}
SpliceValues ==
    {<<>>, <<JNum(1)>>, <<JNum(1), JNum(0)>>, <<JStr("s")>>, <<JNum(1), JStr("s")>>}
Ranges(t) ==
    IF t.k = "vec" THEN (0..MaxLen) \X (0..MaxLen) ELSE {<<0, 0>>, <<0, 1>>}

\* paths and typed payloads the path algebra and the changes are run on
PathElements ==
    {Field("a"), Variant("First", "External"), Variant("First", "Internal"), Index(0),
     StringKey("0")}
Paths == UNION {[1..n -> PathElements] : n \in 0..MaxPath}
ShortPaths == UNION {[1..n -> PathElements] : n \in 0..1}
PayloadTypes == {Usize, F64, OptionOf(OptionOf(Usize)), UnionT}
\* a path of each kind of element, in the order field, variant, index, key
LongPath == <<Field("fieldA"), Variant("variantB", "External"), Index(3), StringKey("key")>>
\* payloads as they arrive, of any of the payload types or of none
WirePayloads == UNION {Payloads(t) : t \in PayloadTypes}
WireSplices == UNION {[1..n -> {JNum(MaxInt), JFloat(MaxInt), JNull}] : n \in 0..MaxLen}
SplicePayloads == UNION {[1..n -> {Float(MaxInt), NaN}] : n \in 0..MaxLen}

\* ------------------------------------------------------------------------
\* The state: one value tree of one root type and the last call on it; two
\* key paths and the last result computed from them
\* ------------------------------------------------------------------------
VARIABLES ty, tree, pc, keys, patch, before, result, x, y, out
vars == <<ty, tree, pc, keys, patch, before, result, x, y, out, overflow_checks>>
engine == <<ty, tree, keys, patch, before, result, overflow_checks>>

NoPatch == [type |-> "none"]
NoOut == [op |-> "none"]

Init ==
    /\ ty \in Roots
    /\ tree \in Values(ty)
    /\ pc = "idle"
    /\ keys = <<>>
    /\ patch = NoPatch
    /\ before = tree
    /\ result = "None"
    /\ x = unit
    /\ y = unit
    /\ out = NoOut
    \* the ranges of PatchSplice keep start + replace within the word, where
    \* the two builds agree; SpecSplice runs both
    /\ overflow_checks = TRUE

\* one call of patch_keypath on the root, as apply_change makes it: the
\* patch carries the path it is applied at
Call(ks, p) ==
    LET r == patch_keypath(ty, tree, ks, p)
    IN /\ tree' = r.val
       /\ result' = r.res
       /\ keys' = ks
       /\ patch' = p
       /\ before' = tree
       /\ pc' = IF r.res \in Aborts THEN "aborted" ELSE "returned"
       /\ UNCHANGED <<ty, x, y, out, overflow_checks>>

PatchUpdate ==
    /\ pc = "idle"
    /\ \E ks \in KeySeqs(ty, MaxPath) :
          \E v \in Payloads(TypeAt(ty, ks)) : Call(ks, Update(ks, v))

PatchSplice ==
    /\ pc = "idle"
    /\ \E ks \in KeySeqs(ty, MaxPath), vs \in SpliceValues :
          \E range \in Ranges(TypeAt(ty, ks)) : Call(ks, Splice(ks, vs, range[1], range[2]))

\* the caller takes the Result and goes on to its next call; the model
\* follows a tree no further once it has outgrown the bounds
Return ==
    /\ pc = "returned"
    /\ Bounded(ty, tree)
    /\ pc' = "idle"
    /\ keys' = <<>>
    /\ patch' = NoPatch
    /\ before' = tree
    /\ result' = "None"
    /\ UNCHANGED <<ty, tree, x, y, out, overflow_checks>>

Next == PatchUpdate \/ PatchSplice \/ Return

Spec == Init /\ [][Next]_vars

\* ------------------------------------------------------------------------
\* Splices over the whole machine word, in a debug and in a release build
\* ------------------------------------------------------------------------
SpliceRoots == {VecOf(Usize), RecT}
Words == 0..usize_MAX

InitSplice ==
    /\ ty \in SpliceRoots
    /\ tree \in Values(ty)
    /\ pc = "idle"
    /\ keys = <<>>
    /\ patch = NoPatch
    /\ before = tree
    /\ result = "None"
    /\ x = unit
    /\ y = unit
    /\ out = NoOut
    /\ overflow_checks \in BOOLEAN

SpliceWords ==
    /\ pc = "idle"
    /\ \E ks \in {k \in KeySeqs(ty, 1) : TypeAt(ty, k).k = "vec"}, vs \in SpliceValues :
          \E start \in Words, replace \in Words : Call(ks, Splice(ks, vs, start, replace))

NextSplice == SpliceWords \/ Return

SpecSplice == InitSplice /\ [][NextSplice]_vars

TypeOK ==
    /\ pc = "idle" => Bounded(ty, tree)
    /\ result \in KeyPathError \cup Aborts \cup {"Ok", "None"}

\* ------------------------------------------------------------------------
\* The path algebra and the changes at work: x and y are two key paths, out
\* is what the last operation on them returned
\* ------------------------------------------------------------------------
InitPath ==
    /\ ty = Usize
    /\ tree = 0
    /\ pc = "idle"
    /\ keys = <<>>
    /\ patch = NoPatch
    /\ before = 0
    /\ result = "None"
    /\ x \in Paths
    /\ y \in Paths \cup {LongPath}
    /\ out = NoOut
    /\ overflow_checks = TRUE

\* x.appending(&y).appending(&z) and x.appending(&y.appending(&z)), and the
\* appendings of unit
Appending ==
    /\ pc = "idle"
    /\ \E z \in ShortPaths :
          out' = [op |-> "appending", self |-> x, next |-> y, last |-> z,
                  xy |-> appending(x, y),
                  left |-> appending(appending(x, y), z),
                  right |-> appending(x, appending(y, z)),
                  unit_left |-> appending(unit, x),
                  unit_right |-> appending(x, unit)]
    /\ pc' = "returned"
    /\ UNCHANGED <<engine, x, y>>

\* x.is_subpath_of(&y), x.is_subpath_of(&x), x.is_subpath_of(&x.appending(&y))
IsSubpathOf ==
    /\ pc = "idle"
    /\ out' = [op |-> "is_subpath_of", val |-> is_subpath_of(x, y),
               same |-> is_subpath_of(x, x),
               longer |-> is_subpath_of(x, appending(x, y))]
    /\ pc' = "returned"
    /\ UNCHANGED <<engine, x, y>>

\* a typed change at y, erased, rebased onto x and downcast to its payload type
Downcasting(change, t) ==
    /\ LET erased == ChangeOf_from(change)
           rebased == rebase(erased, x)
       IN out' = [op |-> "downcast", change |-> change, base |-> x,
                  erased |-> erased, rebased |-> rebased,
                  rebased_unit |-> rebase(erased, unit),
                  val |-> downcast(rebased, t)]
    /\ pc' = "returned"
    /\ UNCHANGED <<engine, x, y>>

DowncastUpdate ==
    /\ pc = "idle"
    /\ \E t \in PayloadTypes : \E v \in Values(t) : Downcasting(Change_update(y, t, v), t)

DowncastSplice ==
    /\ pc = "idle"
    /\ \E vs \in SplicePayloads, range \in {<<0, MaxLen>>, <<MaxLen, 0>>} :
          Downcasting(Change_splice(y, F64, vs, range[1], range[2]), F64)

\* an erased change at y, as received, probed for a payload type
Probing(erased, t) ==
    /\ out' = [op |-> "probe", erased |-> erased, t |-> t, val |-> downcast(erased, t)]
    /\ pc' = "returned"
    /\ UNCHANGED <<engine, x, y>>

ProbeUpdate ==
    /\ pc = "idle"
    /\ x = unit
    /\ \E t \in PayloadTypes, value \in WirePayloads :
          Probing([type |-> "update", key_path |-> y, value |-> value], t)

ProbeSplice ==
    /\ pc = "idle"
    /\ x = unit
    /\ \E t \in PayloadTypes, value \in WireSplices, range \in {<<0, MaxLen>>, <<MaxLen, 0>>} :
          Probing([type |-> "splice", key_path |-> y, value |-> value,
                   start |-> range[1], replace |-> range[2]], t)

\* format!("{}", y)
Display ==
    /\ pc = "idle"
    /\ out' = [op |-> "fmt", val |-> KeyPathFrom_fmt(y)]
    /\ pc' = "returned"
    /\ UNCHANGED <<engine, x, y>>

\* the result is dropped
Discard ==
    /\ pc = "returned"
    /\ pc' = "idle"
    /\ out' = NoOut
    /\ UNCHANGED <<engine, x, y>>

NextPath ==
    \/ Appending \/ IsSubpathOf \/ DowncastUpdate \/ DowncastSplice
    \/ ProbeUpdate \/ ProbeSplice \/ Display \/ Discard

SpecPath == InitPath /\ [][NextPath]_vars

\* ------------------------------------------------------------------------
\* Reading a tree along a path: the location a path addresses, with its
\* type.  An optional on the way is looked through; a path that ends at an
\* optional addresses the optional itself.
\* ------------------------------------------------------------------------
NoLocation == [ok |-> FALSE, ty |-> Usize, v |-> 0]
RECURSIVE At(_, _, _)
At(t, v, ks) ==
    IF Len(ks) = 0 THEN [ok |-> TRUE, ty |-> t, v |-> v]
    ELSE CASE t.k = "leaf" -> NoLocation
           [] t.k = "opt" -> IF v = None THEN NoLocation ELSE At(t.inner, v[1], ks)
           [] t.k = "vec" ->
                IF ks[1].type # "index" THEN NoLocation
                ELSE IF ks[1].key >= Len(v) THEN NoLocation
                ELSE At(t.elem, v[ks[1].key + 1], Tail(ks))
           [] t.k = "map" ->
                IF ks[1].type # "stringKey" THEN NoLocation
                ELSE IF ~from_str(ks[1].key).ok THEN NoLocation
                ELSE IF from_str(ks[1].key).v \notin DOMAIN v THEN NoLocation
                ELSE At(t.val, v[from_str(ks[1].key).v], Tail(ks))
           [] t.k = "struct" ->
                IF ks[1].type # "field" THEN NoLocation
                ELSE IF ks[1].key \notin match_arms(t) THEN NoLocation
                ELSE At(FieldType(t.fields, ks[1].key), v[ks[1].key], Tail(ks))
           [] t.k = "enum" ->
                IF t.direct
                THEN At(VariantOf(t, v.case).fields[1].ty, v.p[VariantOf(t, v.case).fields[1].name],
                        ks)
                ELSE IF ks[1].type # "variant" THEN NoLocation
                ELSE IF Len(ks) < 2 THEN NoLocation
                ELSE IF ks[2].type # "field" THEN NoLocation
                ELSE IF ks[1].key # v.case THEN NoLocation
                ELSE IF ks[2].key \notin match_arms(VariantOf(t, v.case)) THEN NoLocation
                ELSE At(FieldType(VariantOf(t, v.case).fields, ks[2].key), v.p[ks[2].key],
                        SubSeq(ks, 3, Len(ks)))

\* A value the wire can carry: it holds no float that is not finite and no
\* present optional whose content is written as null.
RECURSIVE WrittenAsNull(_, _)
WrittenAsNull(t, v) ==
    CASE t.k = "leaf" -> IF t.prim = "f64" THEN v.fl # "finite" ELSE FALSE
      [] t.k = "opt" -> IF v = None THEN TRUE ELSE WrittenAsNull(t.inner, v[1])
      [] OTHER -> FALSE
RECURSIVE Carried(_, _)
Carried(t, v) ==
    CASE t.k = "leaf" -> IF t.prim = "f64" THEN v.fl = "finite" ELSE TRUE
      [] t.k = "vec" -> \A i \in 1..Len(v) : Carried(t.elem, v[i])
      [] t.k = "opt" ->
            IF v = None THEN TRUE
            ELSE IF WrittenAsNull(t.inner, v[1]) THEN FALSE ELSE Carried(t.inner, v[1])
      [] t.k = "map" -> \A k \in DOMAIN v : Carried(t.val, v[k])
      [] t.k = "struct" -> \A i \in 1..Len(t.fields) : Carried(t.fields[i].ty, v[t.fields[i].name])
      [] t.k = "enum" ->
            LET fs == VariantOf(t, v.case).fields
            IN \A i \in 1..Len(fs) : Carried(fs[i].ty, v.p[fs[i].name])

called == pc \in {"returned", "aborted"} /\ patch.type \in {"update", "splice"}
addressed == At(ty, before, keys)

\* ------------------------------------------------------------------------
\* C1: no write without full success.  Whenever a call of patch_keypath
\* returns an error of any kind, the tree after the call equals the tree
\* before it.
\* ------------------------------------------------------------------------
NoWriteWithoutSuccess == (called /\ result \in KeyPathError) => tree = before

\* a Splice whose second element does not decode, on a sequence inside a record
NoWriteWitness ==
    /\ called /\ result = "DeserializationError"
    /\ patch.type = "splice" /\ Len(patch.value) = 2 /\ patch.replace > 0
    /\ Len(keys) = 1 /\ addressed.ok /\ Len(addressed.v) >= patch.start + patch.replace

\* ------------------------------------------------------------------------
\* C2: Update round trip.  As stated: for a path that addresses a location
\* of the tree and any value v of the addressed type, applying Update(p, v)
\* (v in its wire encoding) succeeds and the location then holds v.
\* ------------------------------------------------------------------------
UpdateRoundTripOfAnyValue ==
    (called /\ patch.type = "update" /\ addressed.ok) =>
        \A v \in Values(addressed.ty) :
            patch.value = to_value(addressed.ty, v) =>
                /\ result = "Ok"
                /\ At(ty, tree, keys).ok
                /\ At(ty, tree, keys).v = v

\* C2 as amended: the same for every value v the wire can carry (no float
\* that is not finite, no present optional whose content is written as null)
UpdateRoundTrip ==
    (called /\ patch.type = "update" /\ addressed.ok) =>
        LET location == addressed
            after == At(ty, tree, keys)
        IN \A v \in Values(location.ty) :
               (patch.value = to_value(location.ty, v) /\ Carried(location.ty, v)) =>
                   /\ result = "Ok"
                   /\ after.ok
                   /\ after.v = v

\* an Update two elements deep that changed the tree
UpdateRoundTripWitness ==
    /\ called /\ patch.type = "update" /\ result = "Ok"
    /\ Len(keys) = 2 /\ addressed.ok /\ tree # before
    /\ \E v \in Values(addressed.ty) :
          Carried(addressed.ty, v) /\ patch.value = to_value(addressed.ty, v)

\* ------------------------------------------------------------------------
\* C3: Splice correctness.  A Splice at a path that addresses a sequence s,
\* with start + replace <= len(s) and every value decodable, leaves
\* s[0..start] ++ decoded(values) ++ s[start+replace..] there, of length
\* len(s) - replace + len(values); start = len(s), replace = 0 appends.
\* ------------------------------------------------------------------------
SpliceCorrect ==
    (/\ called /\ patch.type = "splice" /\ addressed.ok /\ addressed.ty.k = "vec"
     /\ patch.start + patch.replace <= Len(addressed.v)
     /\ \A i \in 1..Len(patch.value) : from_value(addressed.ty.elem, patch.value[i]).ok) =>
        LET s == addressed.v
            n == Len(patch.value)
            now == At(ty, tree, keys)
        IN /\ result = "Ok"
           /\ now.ok
           /\ Len(now.v) = Len(s) - patch.replace + n
           /\ \A i \in 1..Len(now.v) :
                 now.v[i] = IF i <= patch.start THEN s[i]
                            ELSE IF i <= patch.start + n
                            THEN from_value(addressed.ty.elem, patch.value[i - patch.start]).v
                            ELSE s[i - n + patch.replace]
           /\ (patch.start = Len(s) /\ patch.replace = 0) =>
                 /\ SubSeq(now.v, 1, Len(s)) = s
                 /\ \A i \in 1..n :
                       now.v[Len(s) + i] = from_value(addressed.ty.elem, patch.value[i]).v

\* two values put between the two elements of a sequence
SpliceWitness ==
    /\ called /\ patch.type = "splice" /\ result = "Ok"
    /\ addressed.ok /\ addressed.ty.k = "vec" /\ Len(addressed.v) = 2
    /\ patch.start = 1 /\ patch.replace = 0 /\ Len(patch.value) = 2
    /\ Len(At(ty, tree, keys).v) = 4

\* ------------------------------------------------------------------------
\* C4: map upsert.  An Update at exactly one StringKey element makes the
\* map hold the decoded value at that key whether or not the key was there,
\* and leaves every other key as it was; in every other case a key that is
\* not there is UnknownStringKey.
\* ------------------------------------------------------------------------
MapUpsert ==
    (called /\ ty.k = "map" /\ Len(keys) >= 1) =>
        (keys[1].type = "stringKey" =>
            (from_str(keys[1].key).ok =>
                LET key == from_str(keys[1].key).v
                IN IF Len(keys) = 1 /\ patch.type = "update"
                   THEN from_value(ty.val, patch.value).ok =>
                            /\ result = "Ok"
                            /\ DOMAIN tree = DOMAIN before \cup {key}
                            /\ tree[key] = from_value(ty.val, patch.value).v
                            /\ \A other \in DOMAIN before \ {key} : tree[other] = before[other]
                   ELSE key \notin DOMAIN before =>
                            (result = "UnknownStringKey" /\ tree = before)))

\* an Update that put a key into a map that did not hold it
MapUpsertWitness ==
    /\ called /\ ty.k = "map" /\ result = "Ok" /\ Len(keys) = 1
    /\ DOMAIN before # {} /\ DOMAIN tree # DOMAIN before

\* ------------------------------------------------------------------------
\* C5: optional replace.  An Update at an optional's own path with a null
\* payload makes it None, with a payload that is present makes it Some of that
\* payload, whatever it was before; a non-empty suffix applied to None fails
\* with CannotMutateNone.
\* ------------------------------------------------------------------------
OptionalReplace ==
    (called /\ ty.k = "opt") =>
        /\ (Len(keys) = 0 /\ patch.type = "update") =>
              /\ patch.value = JNull => (result = "Ok" /\ tree = None)
              /\ \A v \in Values(ty.inner) :
                    (patch.value # JNull /\ patch.value = to_value(ty.inner, v)) =>
                        (result = "Ok" /\ tree = Some(v))
        /\ (Len(keys) > 0 /\ before = None) => (result = "CannotMutateNone" /\ tree = None)

\* a None that an Update made a Some
OptionalReplaceWitness ==
    /\ called /\ ty.k = "opt" /\ Len(keys) = 0 /\ patch.type = "update"
    /\ before = None /\ result = "Ok" /\ tree # None

\* ------------------------------------------------------------------------
\* C6: mismatch safety.  A patch whose path reaches a tagged union with a
\* Variant element (the last element, or followed by a Field element) that
\* does not name the union's current case returns UnknownVariantOrField and
\* leaves the tree as it was.
\* ------------------------------------------------------------------------
MismatchSafety ==
    (/\ pc # "idle" /\ patch.type \in {"update", "splice"}
     /\ ty.k = "enum" /\ Len(keys) >= 1) =>
        ((/\ keys[1].type = "variant"
          /\ IF Len(keys) = 1 THEN TRUE ELSE keys[2].type = "field") =>
            (keys[1].key # before.case =>
                (result = "UnknownVariantOrField" /\ tree = before)))

\* ------------------------------------------------------------------------
\* C7: apply is total over results.  With sequence indices and splice
\* ranges in range, every call returns Ok or a KeyPathError and never
\* aborts, a suffix that ends at a Variant element included.
\* ------------------------------------------------------------------------
ApplyIsTotal ==
    (pc # "idle" /\ result # "IndexOutOfRange") => result \in KeyPathError \cup {"Ok"}

\* ------------------------------------------------------------------------
\* The typed builder (pathogen/src/key_path.rs, pathogen/src/navigable.rs and
\* derive(Navigable)): x is the path built so far, out.value the type it
\* reaches
\* ------------------------------------------------------------------------
KeyPath_field(name) == <<Field(name)>>
KeyPath_variant(key, tag) == <<Variant(key, tag)>>
\* tuple_variant with the payload addressed by position, as a sequence is
KeyPath_tuple_variant_by_index(key, index, tag) ==
    <<Variant(key, tag), Index(from_str(index).v)>>
KeyPath_tuple_variant(key, index, tag) == <<Variant(key, tag), Field(index)>>
KeyPath_index(index) == <<Index(index)>>
\* key.to_string() of a key that is a String
KeyPath_string_key(key) == <<StringKey(key)>>

\* IndexNavigable::index_keypath_segment of Vec<T> and of the maps, whose
\* key is written with format!
index_keypath_segment(t, index) ==
    IF t.k = "vec" THEN KeyPath_index(index) ELSE KeyPath_string_key(to_string(index))
\* KeyPath::at
KeyPath_at(self, t, index) == prepending(index_keypath_segment(t, index), self)

\* an accessor of a reflection: the path it holds and the type it reaches
Accessor(op, name, position, tag, segment, path, value) ==
    [op |-> op, name |-> name, position |-> position, tag |-> tag, segment |-> segment,
     path |-> path, value |-> value]
\* reflection_type_fields that names a field by its identifier
reflection_type_fields_by_ident(fields, serde_attrs, path) ==
    {LET field_str == ident_to_string(fields[i].ident)
     IN Accessor("field", ident_to_string(fields[i].ident), i - 1, "External",
                 KeyPath_field(field_str), appending(path, KeyPath_field(field_str)),
                 fields[i].ty) :
        i \in 1..Len(fields)}
\* the fields of a derived reflection type, one path each
reflection_type_fields(fields, serde_attrs, path) ==
    {LET field_str == field_name(fields[i].ident, serde_attrs, fields[i])
     IN Accessor("field", ident_to_string(fields[i].ident), i - 1, "External",
                 KeyPath_field(field_str), appending(path, KeyPath_field(field_str)),
                 fields[i].ty) :
        i \in 1..Len(fields)}
\* the value of an enum reflection's field for one variant: a tuple of paths,
\* one for each unnamed field, or the path of the variant's own reflection
derive_enum_variant_field_value(t, variant, path) ==
    LET variant_name == ident_to_string(variant.ident)
        variant_str == field_name(variant.ident, t, variant)
    IN
    IF is_tuple_variant(variant)
    THEN {Accessor("tuple_variant", variant_name, field_index, t.tag,
                   KeyPath_tuple_variant(variant_str, to_string(field_index), t.tag),
                   appending(path, KeyPath_tuple_variant(variant_str, to_string(field_index),
                                                         t.tag)),
                   variant.fields[field_index + 1].ty) :
             field_index \in 0..Len(variant.fields) - 1}
    ELSE {Accessor("variant", variant_name, 0, t.tag, KeyPath_variant(variant_str, t.tag),
                   appending(path, KeyPath_variant(variant_str, t.tag)),
                   VariantNode(variant))}
\* Navigable::append_to_keypath: the reflection of a type at a path
append_to_keypath(t, path) ==
    CASE t.k \in {"struct", "variant"} -> reflection_type_fields(t.fields, t, path)
      [] t.k = "enum" ->
            UNION {derive_enum_variant_field_value(t, t.variants[i], path) :
                      i \in 1..Len(t.variants)}
      [] t.k = "opt" /\ t.inner.k \in {"struct", "enum", "opt"} ->
            {Accessor("Some", "Some", 0, "External", unit, appending(path, unit), t.inner)}
      [] OTHER -> {}

\* the paths that chains of at most n accessors build from a path that
\* reaches a value of type t
RECURSIVE BuiltPaths(_, _, _)
BuiltPaths(t, path, n) ==
    {path} \cup
    IF n = 0 THEN {}
    ELSE UNION {BuiltPaths(accessor.value, accessor.path, n - 1) :
                   accessor \in append_to_keypath(t, path)}
         \cup (IF t.k = "vec"
               THEN UNION {BuiltPaths(t.elem, KeyPath_at(path, t, index), n - 1) :
                              index \in 0..MaxLen}
               ELSE IF t.k = "map"
               THEN UNION {BuiltPaths(t.val, KeyPath_at(path, t, index), n - 1) :
                              index \in 0..MaxKey}
               ELSE {})
\* those of them that go through the Some accessor of an optional t
BuiltThroughSome(t) ==
    UNION {BuiltPaths(accessor.value, accessor.path, MaxPath) :
              accessor \in {a \in append_to_keypath(t, unit) : a.op = "Some"}}

\* enum TestTupleEnum { VariantOne(usize), VariantTwo(Pair, usize) }
TupleT ==
    EnumOf("External",
           <<VariantDecl("VariantOne", <<TupleField(0, Usize)>>),
             VariantDecl("VariantTwo", <<TupleField(0, PairT), TupleField(1, Usize)>>)>>)
\* struct Doc { a: Option<TestTupleEnum>, b: Vec<Union>, c: BTreeMap<usize, Pair> }
DocT ==
    StructOf(<<FieldDecl("a", OptionOf(TupleT)), FieldDecl("b", VecOf(UnionT)),
               FieldDecl("c", MapOf(PairT))>>)
BuildRoots == Roots \cup {TupleT, DocT, VecOf(DocT)}

InitBuild ==
    /\ ty \in BuildRoots
    /\ tree = 0
    /\ pc = "idle"
    /\ keys = <<>>
    /\ patch = NoPatch
    /\ before = 0
    /\ result = "None"
    /\ x = unit
    /\ y = unit
    /\ out = NoOut
    /\ overflow_checks = TRUE

\* Root::keypaths(): the reflection of the root at the unit path
Keypaths ==
    /\ pc = "idle"
    /\ x' = unit
    /\ out' = Accessor("keypaths", "", 0, "External", unit, unit, ty)
    /\ pc' = "path"
    /\ UNCHANGED <<engine, y>>

\* x.fields() and one accessor of the reflection
Fields ==
    /\ pc = "path"
    /\ \E accessor \in append_to_keypath(out.value, x) :
          /\ x' = accessor.path
          /\ out' = accessor
    /\ UNCHANGED <<engine, pc, y>>

\* x.at(index) on a sequence or a map
At_index ==
    /\ pc = "path"
    /\ out.value.k \in {"vec", "map"}
    /\ \E index \in 0..(IF out.value.k = "vec" THEN MaxLen ELSE MaxKey) :
          /\ x' = KeyPath_at(x, out.value, index)
          /\ out' = Accessor("at", "", index, "External",
                              index_keypath_segment(out.value, index),
                              KeyPath_at(x, out.value, index),
                              IF out.value.k = "vec" THEN out.value.elem ELSE out.value.val)
    /\ UNCHANGED <<engine, pc, y>>

NextBuild == Keypaths \/ Fields \/ At_index

SpecBuild == InitBuild /\ [][NextBuild]_vars

\* ------------------------------------------------------------------------
\* Paths of the builder applied by the engine, on types that derive both
\* Navigable and KeyPathMutable and carry serde and keypath_mutable
\* attributes
\* ------------------------------------------------------------------------
my_field == <<"m", "y", "_", "f", "i", "e", "l", "d">>
\* #[serde(rename_all = "camelCase")] struct RenamedStruct { my_field: usize }
RenamedStructT == SerdeStructOf(<<"camelCase">>, <<SerdeField(my_field, <<>>, "myField", Usize)>>)
\* #[serde(rename_all = "camelCase")] enum RenamedEnum {
\*     #[serde(rename_all = "camelCase")] VariantOne { my_field: usize },
\*     VariantTwo { my_field: RenamedStruct } }
RenamedEnumT ==
    SerdeEnumOf(<<"camelCase">>, "External",
        <<SerdeVariant(<<"V", "a", "r", "i", "a", "n", "t", "O", "n", "e">>, <<>>,
                       <<"camelCase">>, "variantOne",
                       <<SerdeField(my_field, <<>>, "myField", Usize)>>),
          SerdeVariant(<<"V", "a", "r", "i", "a", "n", "t", "T", "w", "o">>, <<>>, <<>>,
                       "variantTwo",
                       <<SerdeField(my_field, <<>>, "my_field", RenamedStructT)>>)>>)
\* enum MyEnum { #[serde(rename = "first")] FirstOne { a: usize },
\*               #[serde(rename = "second")] SecondOne { c: f64 } }
\* (SecondOne without its String field)
MyEnumT ==
    SerdeEnumOf(<<>>, "External",
        <<SerdeVariant(<<"F", "i", "r", "s", "t", "O", "n", "e">>, <<"first">>, <<>>, "first",
                       <<FieldDecl("a", Usize)>>),
          SerdeVariant(<<"S", "e", "c", "o", "n", "d", "O", "n", "e">>, <<"second">>, <<>>,
                       "second", <<FieldDecl("c", F64)>>)>>)
NameRoots == {RenamedStructT, RenamedEnumT, MyEnumT, SkipT, TupleT, OptionOf(PairT)}

\* what chains of at most n accessors build from a path that reaches a
\* value of type t: the path, the accessors it was built through, and the
\* type it reaches
RECURSIVE Built(_, _, _, _)
Built(t, path, via, n) ==
    {[path |-> path, via |-> via, value |-> t]} \cup
    IF n = 0 THEN {}
    ELSE UNION {Built(accessor.value, accessor.path,
                      Append(via, [op |-> accessor.op, name |-> accessor.name,
                                   position |-> accessor.position]),
                      n - 1) :
                   accessor \in append_to_keypath(t, path)}

InitNames ==
    /\ ty \in NameRoots
    /\ tree \in Values(ty)
    /\ pc = "idle"
    /\ keys = <<>>
    /\ patch = NoPatch
    /\ before = tree
    /\ result = "None"
    /\ x = unit
    /\ y = unit
    /\ out = NoOut
    /\ overflow_checks = TRUE

\* a change made with a path of the builder, applied to the root
CallBuilt(built, p) ==
    LET r == patch_keypath(ty, tree, built.path, p)
    IN /\ tree' = r.val
       /\ result' = r.res
       /\ keys' = built.path
       /\ patch' = p
       /\ before' = tree
       /\ pc' = IF r.res \in Aborts THEN "aborted" ELSE "returned"
       /\ out' = [op |-> "built", via |-> built.via, value |-> built.value]
       /\ UNCHANGED <<ty, x, y, overflow_checks>>

\* the paths that reach a value; the path of a struct variant's reflection
\* reaches none
UpdateBuilt ==
    /\ pc = "idle"
    /\ \E built \in {b \in Built(ty, unit, <<>>, MaxPath) : b.value.k # "variant"} :
          \E v \in Payloads(built.value) : CallBuilt(built, Update(built.path, v))

SpliceBuilt ==
    /\ pc = "idle"
    /\ \E built \in {b \in Built(ty, unit, <<>>, MaxPath) : b.value.k # "variant"} :
          \E vs \in SpliceValues : CallBuilt(built, Splice(built.path, vs, 0, 0))

ReturnBuilt ==
    /\ pc = "returned"
    /\ pc' = "idle"
    /\ keys' = <<>>
    /\ patch' = NoPatch
    /\ before' = tree
    /\ result' = "None"
    /\ out' = NoOut
    /\ UNCHANGED <<ty, tree, x, y, overflow_checks>>

NextNames == UpdateBuilt \/ SpliceBuilt \/ ReturnBuilt

SpecNames == InitNames /\ [][NextNames]_vars

\* ------------------------------------------------------------------------
\* Paths compared element by element
\* ------------------------------------------------------------------------
SameElements(p, q) ==
    IF Len(p) # Len(q) THEN FALSE
    ELSE \A i \in 1..Len(p) : IF p[i].type # q[i].type THEN FALSE ELSE p[i] = q[i]
StrictPrefix(p, q) ==
    IF Len(p) >= Len(q) THEN FALSE
    ELSE \A i \in 1..Len(p) : IF p[i].type # q[i].type THEN FALSE ELSE p[i] = q[i]
Concatenation(p, q, pq) ==
    IF Len(pq) # Len(p) + Len(q) THEN FALSE
    ELSE /\ SameElements(SubSeq(pq, 1, Len(p)), p)
         /\ SameElements(SubSeq(pq, Len(p) + 1, Len(pq)), q)

\* ------------------------------------------------------------------------
\* C8: is_subpath_of(self, other) is true iff self's elements are a strict,
\* position-wise equal prefix of other's: never of a path itself, always of
\* the path extended by a non-empty path, never when other is not longer or
\* one of the first len(self) elements differs.
\* ------------------------------------------------------------------------
SubpathIsStrictPrefix ==
    out.op = "is_subpath_of" =>
        /\ out.val = StrictPrefix(x, y)
        /\ out.same = FALSE
        /\ out.longer = (Len(y) > 0)
        /\ Len(y) <= Len(x) => out.val = FALSE
        /\ (\E i \in 1..Len(x) : i <= Len(y) /\ ~SameElements(<<x[i]>>, <<y[i]>>)) =>
                out.val = FALSE

\* a path of one Variant element under a path of two elements
SubpathWitness ==
    /\ out.op = "is_subpath_of" /\ out.val = TRUE
    /\ Len(x) = 1 /\ Len(y) = 2 /\ x[1].type = "variant"

\* ------------------------------------------------------------------------
\* C9: composition is concatenation.  appending is associative on the
\* element sequences, unit is its left and right identity, the result is
\* the elements of self followed by those of next, and the operands are
\* what they were.
\* ------------------------------------------------------------------------
AppendingIsConcatenation ==
    out.op = "appending" =>
        /\ SameElements(out.left, out.right)
        /\ SameElements(out.unit_left, x)
        /\ SameElements(out.unit_right, x)
        /\ Concatenation(x, y, out.xy)
        /\ Concatenation(out.xy, out.last, out.left)
        /\ out.self = x /\ out.next = y

\* three non-empty paths, the first two different
AppendingWitness ==
    /\ out.op = "appending"
    /\ Len(x) = 2 /\ Len(y) = 2 /\ Len(out.last) = 1 /\ x # y
    /\ Len(out.left) = 5

\* ------------------------------------------------------------------------
\* C10: rebase then downcast.  As stated: for a Change with a payload of
\* type T and a base path, change.rebase(base).downcast::<T>() is Some
\* change with the payload of the original and the path
\* append(base, original path).
\* ------------------------------------------------------------------------
RebaseThenDowncastOfAnyPayload ==
    out.op = "downcast" =>
        /\ out.val # None
        /\ out.val[1].type = out.change.type
        /\ out.val[1].value = out.change.value
        /\ Concatenation(out.base, out.change.key_path, out.val[1].key_path)

\* C10 as amended: the same for every payload the wire can carry (no float
\* that is not finite, no present optional whose content is written as null);
\* a splice keeps its start and replace
PayloadCarried(change) ==
    IF change.type = "update" THEN Carried(change.vty, change.value)
    ELSE \A i \in 1..Len(change.value) : Carried(change.vty, change.value[i])
RebaseThenDowncast ==
    (out.op = "downcast" /\ PayloadCarried(out.change)) =>
        /\ out.val # None
        /\ out.val[1].type = out.change.type
        /\ out.val[1].vty = out.change.vty
        /\ out.val[1].value = out.change.value
        /\ Concatenation(out.base, out.change.key_path, out.val[1].key_path)
        /\ out.change.type = "splice" =>
              /\ out.val[1].start = out.change.start
              /\ out.val[1].replace = out.change.replace

\* a Splice of two values rebased from a one-element path onto a base of two
RebaseThenDowncastWitness ==
    /\ out.op = "downcast" /\ out.change.type = "splice"
    /\ Len(out.change.value) = 2 /\ PayloadCarried(out.change)
    /\ Len(out.base) = 2 /\ Len(out.change.key_path) = 1
    /\ out.val # None

\* ------------------------------------------------------------------------
\* C11: rebase frame.  Rebasing an erased change onto a base path gives a
\* change of the same kind whose path is the elements of the base followed
\* by those of the original, with the payload (and, for a Splice, start and
\* replace) unchanged; the original is what it was, and rebasing onto the
\* unit path gives a change equal to the original.
\* ------------------------------------------------------------------------
RebaseFrame ==
    out.op = "downcast" =>
        /\ out.rebased.type = out.erased.type
        /\ Concatenation(out.base, out.erased.key_path, out.rebased.key_path)
        /\ out.rebased.value = out.erased.value
        /\ out.erased.type = "splice" =>
              /\ out.rebased.start = out.erased.start
              /\ out.rebased.replace = out.erased.replace
        /\ out.erased = ChangeOf_from(out.change)
        /\ SameElements(out.erased.key_path, y)
        /\ out.rebased_unit = out.erased

\* a Splice with start and replace different, rebased from a path of two
\* elements onto a base of two others
RebaseFrameWitness ==
    /\ out.op = "downcast" /\ out.erased.type = "splice"
    /\ out.erased.start # out.erased.replace
    /\ Len(out.base) = 2 /\ Len(out.erased.key_path) = 2
    /\ out.base # out.erased.key_path
    /\ Len(out.rebased.key_path) = 4

\* ------------------------------------------------------------------------
\* A path written out by hand: names joined by dots, brackets attached
\* ------------------------------------------------------------------------
IsName(e) == e.type \in {"field", "variant"}
RECURSIVE Rendered(_)
Rendered(p) ==
    IF Len(p) = 0 THEN ""
    ELSE LET front == SubSeq(p, 1, Len(p) - 1)
             e == p[Len(p)]
         IN IF IsName(e)
            THEN Rendered(front) \o (IF Len(front) > 0 THEN "." ELSE "") \o e.key
            ELSE IF e.type = "index" THEN Rendered(front) \o "[" \o Decimals[e.key + 1] \o "]"
            ELSE Rendered(front) \o "[\"" \o e.key \o "\"]"
NamesFirst(p) == \A i \in 1..Len(p) - 1 : IsName(p[i + 1]) => IsName(p[i])

\* ------------------------------------------------------------------------
\* C12: rendering.  As stated: a path displays as a leading '.', then its
\* elements in order, consecutive Field and Variant names separated by '.',
\* an Index as [n] and a StringKey as ["k"] attached directly to what
\* precedes them; the path Field fieldA, Variant variantB, Index 3,
\* StringKey key displays as .fieldA.variantB[3]["key"].  Paths in which a
\* name follows a bracket are left out: the statement does not say how
\* they look.
\* ------------------------------------------------------------------------
DisplayIsDottedBracketed ==
    (out.op = "fmt" /\ NamesFirst(y)) =>
        /\ out.val = "." \o Rendered(y)
        /\ y = LongPath => out.val = ".fieldA.variantB[3][\"key\"]"

\* a path with the tag encodings of its Variant elements replaced
Retag(ks, tags) ==
    [i \in 1..Len(ks) |->
        IF ks[i].type = "variant" THEN Variant(ks[i].key, tags[i]) ELSE ks[i]]

\* ------------------------------------------------------------------------
\* C13: the tag encoding carried by a Variant element has no part in the
\* traversal.  A call whose path differs from the one made only in the tag
\* encodings of its Variant elements returns the same result and leaves the
\* same tree.
\* ------------------------------------------------------------------------
TagIsNotRead ==
    (called /\ \E i \in 1..Len(keys) : keys[i].type = "variant") =>
        \A retagged \in {Retag(keys, tags) : tags \in [1..Len(keys) -> VariantTagType]} :
            LET r == patch_keypath(ty, before, retagged, patch)
            IN r.res = result /\ r.val = tree

\* a payload of a union case replaced through a Variant element that
\* carries another tag encoding than the union's
TagIsNotReadWitness ==
    /\ called /\ result = "Ok" /\ tree # before
    /\ ty.k = "enum" /\ Len(keys) = 2
    /\ keys[1].type = "variant" /\ keys[1].tag # ty.tag

\* ------------------------------------------------------------------------
\* C14: well-formed paths.  In every path the typed builder produces, each
\* Variant element is the last element or is immediately followed by a
\* Field element; tuple_variant(name, index_str, tag) is exactly the two
\* elements Variant{name, tag}, Field{index_str}, and the k-th positional
\* payload of a case is reached by the Field named by the decimal string
\* of k.
\* ------------------------------------------------------------------------
BuiltWellFormed ==
    pc = "path" =>
        /\ \A i \in 1..Len(x) :
              x[i].type = "variant" => (i = Len(x) \/ x[i + 1].type = "field")
        /\ out.op = "tuple_variant" =>
              /\ Len(out.segment) = 2
              /\ SameElements(<<out.segment[1]>>, <<Variant(out.name, out.tag)>>)
              /\ SameElements(<<out.segment[2]>>, <<Field(Decimals[out.position + 1])>>)
              /\ Len(x) >= 2
              /\ SameElements(SubSeq(x, Len(x) - 1, Len(x)), out.segment)

\* the second payload of a tuple case of a union that is itself reached
\* through a field and an optional
BuiltWitness ==
    /\ pc = "path" /\ out.op = "tuple_variant" /\ out.position = 1
    /\ Len(x) = 3 /\ x[1].type = "field" /\ x[2].type = "variant"

\* ------------------------------------------------------------------------
\* C15: downcast is a probe.  downcast::<T> of an erased change is Some
\* typed change when the payload decodes as T and None when it does not,
\* and nothing else; for a Splice it is None as soon as one of the values
\* does not decode.  The change it gives has the kind, the start and the
\* replace of the erased one, the decoded payload, and a path of the same
\* elements.
\* ------------------------------------------------------------------------
DowncastIsProbe ==
    out.op = "probe" =>
        LET erased == out.erased
            decodes ==
                IF erased.type = "update" THEN from_value(out.t, erased.value).ok
                ELSE \A i \in 1..Len(erased.value) : from_value(out.t, erased.value[i]).ok
        IN /\ Len(out.val) <= 1
           /\ decodes <=> out.val # None
           /\ out.val # None =>
                 /\ out.val[1].type = erased.type
                 /\ out.val[1].vty = out.t
                 /\ SameElements(out.val[1].key_path, erased.key_path)
                 /\ IF erased.type = "update"
                    THEN out.val[1].value = from_value(out.t, erased.value).v
                    ELSE /\ Len(out.val[1].value) = Len(erased.value)
                         /\ \A i \in 1..Len(erased.value) :
                               out.val[1].value[i] = from_value(out.t, erased.value[i]).v
                         /\ out.val[1].start = erased.start
                         /\ out.val[1].replace = erased.replace

\* a Splice of two values of which the first decodes as the type probed for
\* and the second does not
DowncastIsProbeWitness ==
    /\ out.op = "probe" /\ out.erased.type = "splice" /\ Len(out.erased.value) = 2
    /\ from_value(out.t, out.erased.value[1]).ok
    /\ ~from_value(out.t, out.erased.value[2]).ok
    /\ out.val = None
    /\ Len(out.erased.key_path) = 2

\* ------------------------------------------------------------------------
\* C16: direct dispatch.  A union in direct-dispatch mode that is called
\* with a non-empty suffix consumes no element: the call does to the one
\* payload of the current case, whichever it is, what the same call with
\* the same suffix does to that payload alone, and the case stays.  With an
\* empty suffix an Update decodes the value as the whole union and replaces
\* self, so that the case may change.
\* ------------------------------------------------------------------------
DirectDispatch ==
    (called /\ ty.k = "enum" /\ ty.direct) =>
        IF Len(keys) # 0
        THEN LET payload == VariantOf(ty, before.case).fields[1]
                 alone == patch_keypath(payload.ty, before.p[payload.name], keys, patch)
             IN /\ result = alone.res
                /\ tree.case = before.case
                /\ tree.p[payload.name] = alone.val
        ELSE patch.type = "update" =>
                LET value == from_value(ty, patch.value)
                IN IF value.ok THEN result = "Ok" /\ tree = value.v
                   ELSE result = "DeserializationError" /\ tree = before

\* an element of the sequence held by the second case replaced through a
\* path of the one element Index
DirectDispatchWitness ==
    /\ called /\ ty.k = "enum" /\ ty.direct
    /\ before.case = "Second" /\ Len(keys) = 1 /\ keys[1].type = "index"
    /\ result = "Ok" /\ tree # before

\* ------------------------------------------------------------------------
\* C17: record dispatch.  A record called with a non-empty suffix returns
\* MustMutateStructWithField when the first element is not a Field and
\* UnknownField when it is a Field whose name is not exactly the name of a
\* field that is not skipped; otherwise the call does to that field what
\* the call with the suffix less its first element does to the field
\* alone, and every other field of the record is what it was.
\* ------------------------------------------------------------------------
RecordDispatch ==
    (called /\ ty.k = "struct" /\ Len(keys) # 0) =>
        LET exposed == {i \in 1..Len(ty.fields) : ~ty.fields[i].skip}
        IN IF keys[1].type # "field"
           THEN result = "MustMutateStructWithField" /\ tree = before
           ELSE IF \A i \in exposed : ty.fields[i].name # keys[1].key
           THEN result = "UnknownField" /\ tree = before
           ELSE LET i == CHOOSE i \in exposed : ty.fields[i].name = keys[1].key
                    name == ty.fields[i].name
                    alone == patch_keypath(ty.fields[i].ty, before[name],
                                           SubSeq(keys, 2, Len(keys)), patch)
                IN /\ result = alone.res
                   /\ tree[name] = alone.val
                   /\ \A j \in 1..Len(ty.fields) :
                         j # i => tree[ty.fields[j].name] = before[ty.fields[j].name]

\* an element of the sequence in the second field of a record replaced
\* through a path of two elements
RecordDispatchWitness ==
    /\ called /\ ty.k = "struct" /\ Len(keys) = 2
    /\ keys[1].type = "field" /\ keys[1].key = "b" /\ ~ty.fields[2].skip
    /\ result = "Ok" /\ tree.b # before.b

\* ------------------------------------------------------------------------
\* C18: union dispatch in normal mode.  A union called with a non-empty
\* suffix returns MustMutateEnumWithVariant when the first element is not
\* a Variant, and MustMutateEnumVariantWithField when there is a second
\* element and it is not a Field, whatever the current case is.  When the
\* Variant names the current case, a Field that names one of its children
\* makes the call do to that child what the call with the suffix less its
\* first two elements does to the child alone, and a Field that names none
\* returns UnknownVariantOrField.
\* ------------------------------------------------------------------------
UnionDispatch ==
    (called /\ ty.k = "enum" /\ ~ty.direct /\ Len(keys) # 0) =>
        IF keys[1].type # "variant"
        THEN result = "MustMutateEnumWithVariant" /\ tree = before
        ELSE Len(keys) >= 2 =>
            IF keys[2].type # "field"
            THEN result = "MustMutateEnumVariantWithField" /\ tree = before
            ELSE keys[1].key = before.case =>
                LET fields == VariantOf(ty, before.case).fields
                    children == {i \in 1..Len(fields) : ~fields[i].skip}
                IN IF \A i \in children : fields[i].name # keys[2].key
                   THEN result = "UnknownVariantOrField" /\ tree = before
                   ELSE LET name == keys[2].key
                            alone == patch_keypath(FieldType(fields, name), before.p[name],
                                                   SubSeq(keys, 3, Len(keys)), patch)
                        IN /\ result = alone.res
                           /\ tree.case = before.case
                           /\ tree.p[name] = alone.val
                           /\ \A i \in 1..Len(fields) :
                                 fields[i].name # name =>
                                    tree.p[fields[i].name] = before.p[fields[i].name]

\* one of the two children of the current case replaced through the
\* Variant that names the case and the Field that names the child
UnionDispatchWitness ==
    /\ called /\ ty.k = "enum" /\ ~ty.direct /\ Len(keys) = 2
    /\ keys[1].type = "variant" /\ keys[1].key = before.case
    /\ keys[2].type = "field" /\ keys[2].key = "b"
    /\ result = "Ok" /\ tree.case = "Second" /\ tree.p.b # before.p.b

\* ------------------------------------------------------------------------
\* C19: leaf dispatch.  When a prefix of the path of a call reaches a leaf
\* and elements remain, the call returns CannotMutatePrimitiveChildren,
\* for an Update and for a Splice alike, and writes nothing.  When the
\* whole path reaches a leaf, an Update whose value decodes as the leaf
\* type puts the decoded value there, and one whose value does not decode
\* returns DeserializationError.
\* ------------------------------------------------------------------------
LeafDispatch ==
    called =>
        \A n \in 0..Len(keys) :
            LET leaf == At(ty, before, SubSeq(keys, 1, n))
            IN IF ~leaf.ok THEN TRUE
               ELSE IF leaf.ty.k # "leaf" THEN TRUE
               ELSE IF n < Len(keys)
               THEN result = "CannotMutatePrimitiveChildren" /\ tree = before
               ELSE patch.type = "update" =>
                       LET value == from_value(leaf.ty, patch.value)
                       IN IF value.ok
                          THEN result = "Ok" /\ At(ty, tree, keys).v = value.v
                          ELSE result = "DeserializationError" /\ tree = before

\* a Splice with one element left at a leaf that is a field of a record
LeafDispatchWitness ==
    /\ called /\ patch.type = "splice" /\ Len(keys) = 2
    /\ At(ty, before, SubSeq(keys, 1, 1)).ok
    /\ At(ty, before, SubSeq(keys, 1, 1)).ty.k = "leaf"
    /\ result = "CannotMutatePrimitiveChildren"

\* ------------------------------------------------------------------------
\* C20: only a sequence takes a Splice.  A Splice whose path ends at a
\* leaf, a record, a union in either mode, a map or an optional, whatever
\* the optional holds, returns CannotSpliceType and writes nothing.
\* ------------------------------------------------------------------------
SpliceOnlyOnSequence ==
    (called /\ patch.type = "splice") =>
        IF ~addressed.ok THEN TRUE
        ELSE addressed.ty.k \in {"leaf", "struct", "enum", "map", "opt"} =>
                result = "CannotSpliceType" /\ tree = before

\* a Splice of nothing for nothing at the empty path of an optional that
\* holds a sequence
SpliceOnlyOnSequenceWitness ==
    /\ called /\ patch.type = "splice" /\ Len(keys) = 0
    /\ ty.k = "opt" /\ ty.inner.k = "vec" /\ before # None
    /\ patch.start = 0 /\ patch.replace = 0 /\ Len(patch.value) = 0
    /\ result = "CannotSpliceType"

\* ------------------------------------------------------------------------
\* C21: map dispatch.  A map called with a non-empty suffix returns
\* MustMutateMapWithStringKey when the first element is not a StringKey and
\* UnknownStringKey when its string is not the writing of a key.  Unless
\* the suffix is that one element and the patch an Update, a key that is
\* not in the map returns UnknownStringKey, for a Splice too, and a key
\* that is makes the call do to the value held what the call with the
\* suffix less its first element does to that value alone.  In each of
\* these cases the map has the keys it had.
\* ------------------------------------------------------------------------
MapDispatch ==
    (called /\ ty.k = "map" /\ Len(keys) # 0) =>
        IF keys[1].type # "stringKey"
        THEN result = "MustMutateMapWithStringKey" /\ tree = before
        ELSE IF \A n \in 1..Len(Decimals) : Decimals[n] # keys[1].key
        THEN result = "UnknownStringKey" /\ tree = before
        ELSE IF Len(keys) = 1 /\ patch.type = "update" THEN TRUE
        ELSE LET key == (CHOOSE n \in 1..Len(Decimals) : Decimals[n] = keys[1].key) - 1
             IN IF key \notin DOMAIN before
                THEN result = "UnknownStringKey" /\ tree = before
                ELSE LET alone == patch_keypath(ty.val, before[key],
                                                SubSeq(keys, 2, Len(keys)), patch)
                     IN /\ result = alone.res
                        /\ DOMAIN tree = DOMAIN before
                        /\ tree[key] = alone.val
                        /\ \A other \in DOMAIN before \ {key} : tree[other] = before[other]

\* a Splice through a path of the one key that a map of another key lacks
MapDispatchWitness ==
    /\ called /\ ty.k = "map" /\ Len(keys) = 1 /\ patch.type = "splice"
    /\ keys[1].type = "stringKey" /\ from_str(keys[1].key).ok
    /\ from_str(keys[1].key).v \notin DOMAIN before /\ DOMAIN before # {}
    /\ result = "UnknownStringKey" /\ tree = before

\* ------------------------------------------------------------------------
\* C22: sequence dispatch.  When a prefix of the path of a call reaches a
\* sequence and elements remain, the call returns
\* MustMutateVectorWithIndex if the next element is not an Index; if it is
\* an Index below the length, the call does to the element at that
\* position what the call with the rest of the suffix does to it alone,
\* and the sequence keeps its length and its other elements; if it is an
\* Index at or past the length, the call aborts on the index and is no
\* returned error, and the tree is what it was.  When the whole path
\* reaches the sequence, an Update puts the decoded sequence in its place.
\* ------------------------------------------------------------------------
SequenceDispatch ==
    called =>
        \A n \in 0..Len(keys) :
            LET seq == At(ty, before, SubSeq(keys, 1, n))
                rest == SubSeq(keys, n + 1, Len(keys))
                after == At(ty, tree, SubSeq(keys, 1, n))
            IN IF ~seq.ok THEN TRUE
               ELSE IF seq.ty.k # "vec" THEN TRUE
               ELSE IF Len(rest) = 0
               THEN patch.type = "update" =>
                       LET value == from_value(seq.ty, patch.value)
                       IN IF value.ok THEN result = "Ok" /\ after.v = value.v
                          ELSE result = "DeserializationError" /\ tree = before
               ELSE IF rest[1].type # "index"
               THEN result = "MustMutateVectorWithIndex" /\ tree = before
               ELSE IF rest[1].key >= Len(seq.v)
               THEN /\ result = "IndexOutOfRange"
                    /\ result \notin KeyPathError
                    /\ pc = "aborted"
                    /\ tree = before
               ELSE LET position == rest[1].key + 1
                        alone == patch_keypath(seq.ty.elem, seq.v[position], Tail(rest), patch)
                    IN /\ result = alone.res
                       /\ Len(after.v) = Len(seq.v)
                       /\ after.v[position] = alone.val
                       /\ \A i \in 1..Len(seq.v) : i # position => after.v[i] = seq.v[i]

\* the second of two elements of the sequence in a field of a record
\* replaced
SequenceDispatchWitness ==
    /\ called /\ Len(keys) = 2 /\ result = "Ok" /\ tree # before
    /\ At(ty, before, SubSeq(keys, 1, 1)).ok
    /\ At(ty, before, SubSeq(keys, 1, 1)).ty.k = "vec"
    /\ Len(At(ty, before, SubSeq(keys, 1, 1)).v) = 2
    /\ keys[2].type = "index" /\ keys[2].key = 1

\* ------------------------------------------------------------------------
\* C23: optional transparency.  As stated: the Some accessor of the builder
\* appends no element, a present optional called with a non-empty suffix
\* hands the same suffix to the value it holds, and so for every path built
\* through Some the call on a present optional returns what the call with
\* the same path returns on the held value itself.
\* ------------------------------------------------------------------------
OptionalTransparentForAnyPath ==
    (called /\ ty.k = "opt") =>
        /\ \A accessor \in append_to_keypath(ty, unit) : Len(accessor.path) = 0
        /\ IF before = None THEN TRUE
           ELSE LET held == patch_keypath(ty.inner, before[1], keys, patch)
                IN IF Len(keys) # 0 THEN result = held.res /\ tree = Some(held.val)
                   ELSE keys \in BuiltThroughSome(ty) => result = held.res

\* C23 as amended: the same for every path built through Some that goes on
\* past the optional by at least one element; the path that ends at Some
\* is the path of the optional itself.
OptionalTransparent ==
    (called /\ ty.k = "opt") =>
        /\ \A accessor \in append_to_keypath(ty, unit) : Len(accessor.path) = 0
        /\ IF before = None THEN TRUE
           ELSE IF Len(keys) = 0 THEN TRUE
           ELSE LET held == patch_keypath(ty.inner, before[1], keys, patch)
                IN result = held.res /\ tree = Some(held.val)

\* a field of the record a present optional holds replaced through the
\* path that Some and the accessor of the field build
OptionalTransparentWitness ==
    /\ called /\ ty.k = "opt" /\ before # None
    /\ Len(keys) = 1 /\ keys \in BuiltThroughSome(ty)
    /\ result = "Ok" /\ tree # before

\* ------------------------------------------------------------------------
\* C24: rebase commutes with application.
\* ------------------------------------------------------------------------
\* KeyPathMutable::apply_change
apply_change(t, self, change) == patch_keypath(t, self, change.key_path, change)

\* the values a base path with the elements ks can reach in v, in a row:
\* the location the elements address and then, where that is a present
\* optional with a Some accessor, what it holds (under n layers of Some)
RECURSIVE Held(_, _, _)
Held(t, v, n) ==
    <<[ty |-> t, v |-> v, layers |-> n]>> \o
    IF t.k = "opt" /\ v # None /\ append_to_keypath(t, unit) # {}
    THEN Held(t.inner, v[1], n + 1)
    ELSE <<>>
SubTrees(t, v, ks) == IF At(t, v, ks).ok THEN Held(At(t, v, ks).ty, At(t, v, ks).v, 0) ELSE <<>>
RECURSIVE Wrapped(_, _)
Wrapped(n, v) == IF n = 0 THEN v ELSE Some(Wrapped(n - 1, v))

\* v with the location that ks addresses replaced by new
RECURSIVE Put(_, _, _, _)
Put(t, v, ks, new) ==
    IF Len(ks) = 0 THEN new
    ELSE CASE t.k = "opt" -> Some(Put(t.inner, v[1], ks, new))
           [] t.k = "vec" ->
                [v EXCEPT ![ks[1].key + 1] = Put(t.elem, v[ks[1].key + 1], Tail(ks), new)]
           [] t.k = "map" ->
                LET k == from_str(ks[1].key).v
                IN [v EXCEPT ![k] = Put(t.val, v[k], Tail(ks), new)]
           [] t.k = "struct" ->
                [v EXCEPT ![ks[1].key] =
                    Put(FieldType(t.fields, ks[1].key), v[ks[1].key], Tail(ks), new)]
           [] t.k = "enum" ->
                IF t.direct
                THEN LET field == VariantOf(t, v.case).fields[1]
                     IN [v EXCEPT !.p[field.name] = Put(field.ty, v.p[field.name], ks, new)]
                ELSE [v EXCEPT !.p[ks[2].key] =
                         Put(FieldType(VariantOf(t, v.case).fields, ks[2].key), v.p[ks[2].key],
                             SubSeq(ks, 3, Len(ks)), new)]

\* the change c relative to the sub-tree r2 of the tree, with the path rest,
\* whose rebasing onto base is the change that was applied to the tree
Commutes(base, rest, r2) ==
    LET c == [patch EXCEPT !.key_path = rest]
        alone == apply_change(r2.ty, r2.v, c)
    IN /\ rebase(c, base) = patch
       /\ (result = "Ok") <=> (alone.res = "Ok")
       /\ result = "Ok" => tree = Put(ty, before, base, Wrapped(r2.layers, alone.val))
       /\ result # "Ok" => result = alone.res
Splits == {i \in 0..Len(keys) : At(ty, before, SubSeq(keys, 1, i)).ok}

\* C24 as stated: for a tree r1 whose sub-tree at the path base is r2 and a
\* change c relative to r2, applying c.rebase(base) to r1 succeeds exactly
\* when applying c to r2 succeeds, then gives r1 with the sub-tree at base
\* replaced by what applying c to r2 gives, and on failure both report the
\* same kind of error.
RebaseCommutesForAnyBase ==
    called =>
        \A i \in Splits :
            \A n \in DOMAIN SubTrees(ty, before, SubSeq(keys, 1, i)) :
                Commutes(SubSeq(keys, 1, i), SubSeq(keys, i + 1, Len(keys)),
                         SubTrees(ty, before, SubSeq(keys, 1, i))[n])

\* C24 as amended: the same where r2 is the location base addresses, or
\* what a present optional there holds and the path of c is not empty.
RebaseCommutes ==
    called =>
        \A i \in Splits :
            \A n \in DOMAIN SubTrees(ty, before, SubSeq(keys, 1, i)) :
                (n = 1 \/ i < Len(keys)) =>
                    Commutes(SubSeq(keys, 1, i), SubSeq(keys, i + 1, Len(keys)),
                             SubTrees(ty, before, SubSeq(keys, 1, i))[n])

\* a change with a path of its own rebased onto a base of one element and
\* applied with effect
RebaseCommutesWitness ==
    /\ called /\ result = "Ok" /\ tree # before
    /\ Len(keys) = 2 /\ 1 \in Splits
    /\ tree = Put(ty, before, SubSeq(keys, 1, 1),
                  apply_change(At(ty, before, SubSeq(keys, 1, 1)).ty,
                               At(ty, before, SubSeq(keys, 1, 1)).v,
                               [patch EXCEPT !.key_path = SubSeq(keys, 2, 2)]).val)

\* ------------------------------------------------------------------------
\* C25: a successful call writes only at the addressed location.
\* ------------------------------------------------------------------------
\* new is old but for the location ks addresses and what is below it: along
\* ks every sibling field, every other element, every other key and every
\* other payload of the case holds what it held, and the case is the same
RECURSIVE SameOutside(_, _, _, _)
SameOutside(t, old, new, ks) ==
    IF Len(ks) = 0 THEN TRUE
    ELSE CASE t.k = "leaf" -> new = old
           [] t.k = "opt" ->
                IF old = None \/ new = None THEN new = old
                ELSE SameOutside(t.inner, old[1], new[1], ks)
           [] t.k = "vec" ->
                /\ Len(new) = Len(old)
                /\ \A i \in 1..Len(old) :
                      IF i = ks[1].key + 1
                      THEN SameOutside(t.elem, old[i], new[i], Tail(ks))
                      ELSE new[i] = old[i]
           [] t.k = "map" ->
                LET k == from_str(ks[1].key).v
                IN /\ DOMAIN new \ {k} = DOMAIN old \ {k}
                   /\ \A other \in DOMAIN old \ {k} : new[other] = old[other]
                   /\ IF k \in DOMAIN old
                      THEN k \in DOMAIN new /\ SameOutside(t.val, old[k], new[k], Tail(ks))
                      ELSE Len(ks) = 1
           [] t.k = "struct" ->
                \A i \in 1..Len(t.fields) :
                    LET name == t.fields[i].name
                    IN IF name = ks[1].key
                       THEN SameOutside(t.fields[i].ty, old[name], new[name], Tail(ks))
                       ELSE new[name] = old[name]
           [] t.k = "enum" ->
                LET fs == VariantOf(t, old.case).fields
                IN /\ new.case = old.case
                   /\ IF t.direct
                      THEN SameOutside(fs[1].ty, old.p[fs[1].name], new.p[fs[1].name], ks)
                      ELSE \A i \in 1..Len(fs) :
                              IF fs[i].name = ks[2].key
                              THEN SameOutside(fs[i].ty, old.p[fs[i].name], new.p[fs[i].name],
                                               SubSeq(ks, 3, Len(ks)))
                              ELSE new.p[fs[i].name] = old.p[fs[i].name]

\* C25: after a successful Update or Splice with the path p, every location
\* of the tree that is neither at nor below p holds the value it held
\* before the call: the sibling fields of a record, the other elements of a
\* sequence, the other keys of a map, the other payloads of the union case.
WritesOnlyAddressed ==
    (called /\ result = "Ok") => SameOutside(ty, before, tree, keys)

\* one entry of a map with two entries written, or a field of it
WritesOnlyAddressedWitness ==
    /\ called /\ result = "Ok" /\ tree # before
    /\ ty.k = "map" /\ Cardinality(DOMAIN before) = 2 /\ Len(keys) # 0
    /\ \E other \in DOMAIN before : tree[other] = before[other]

\* ------------------------------------------------------------------------
\* C26: the range of a Splice under machine arithmetic.
\* ------------------------------------------------------------------------
SplicedBeyond ==
    /\ called /\ patch.type = "splice"
    /\ addressed.ok /\ addressed.ty.k = "vec"
    /\ patch.start + patch.replace > Len(addressed.v)
Decodable == \A i \in 1..Len(patch.value) : from_value(addressed.ty.elem, patch.value[i]).ok

\* C26 as stated: for every start and replace of the machine word and a
\* sequence of length n, a Splice whose true sum start + replace exceeds n
\* never modifies the sequence, also when the sum overflows the word (the
\* overflow abort of a debug build, or the wraparound that gives an end
\* below start), and the call ends in an index-out-of-range failure.
SpliceBeyondIsRangeFailure ==
    SplicedBeyond =>
        /\ tree = before
        /\ result \in {"IndexOutOfRange", "Overflow"}

\* C26 as amended: the sequence is never modified; the call ends in the
\* index-out-of-range failure when every value of the Splice decodes as an
\* element, and returns DeserializationError when one does not, the values
\* being decoded before the range is looked at.
SpliceBeyondNeverWrites ==
    SplicedBeyond =>
        /\ tree = before
        /\ IF ~Decodable THEN result = "DeserializationError"
           ELSE IF patch.start + patch.replace <= usize_MAX THEN result = "IndexOutOfRange"
           ELSE IF overflow_checks THEN result = "Overflow"
           ELSE result = "IndexOutOfRange"

\* a sum that wraps around to an end within the sequence, below start
SpliceBeyondNeverWritesWitness ==
    /\ SplicedBeyond /\ Decodable /\ ~overflow_checks
    /\ patch.start + patch.replace > usize_MAX
    /\ (patch.start + patch.replace) % 2^WordBits <= Len(addressed.v)
    /\ patch.start <= Len(addressed.v)
    /\ Len(patch.value) # 0
    /\ result = "IndexOutOfRange"

\* ------------------------------------------------------------------------
\* C27: the engine addresses by its suffix argument only.  The outcome of
\* patch_keypath(keys, patch) and the tree it leaves do not depend on the
\* key_path inside the patch: a patch of the same kind, value(s), start and
\* replace with another key_path behaves the same for the same keys.
\* ------------------------------------------------------------------------
CarriedPaths == {unit, <<Index(0)>>, LongPath}
SuffixOnly ==
    called =>
        \A other \in CarriedPaths :
            LET r == patch_keypath(ty, before, keys, [patch EXCEPT !.key_path = other])
            IN r.res = result /\ r.val = tree

\* a call with a path of two elements that wrote: every other carried path
\* is a different one
SuffixOnlyWitness ==
    /\ called /\ result = "Ok" /\ tree # before
    /\ Len(keys) = 2 /\ patch.key_path = keys /\ patch.key_path \notin CarriedPaths

\* ------------------------------------------------------------------------
\* C28: the builder and the engine agree on the names of elements.
\* ------------------------------------------------------------------------
\* where the accessors via lead in the value v of type t: "ok" into a field
\* of the current cases, "skipped" when a field, variant or container on
\* the way carries keypath_mutable(skip) or (skip_all), "other" when a
\* variant on the way is not the current case or an optional is absent
RECURSIVE Reach(_, _, _)
Reach(t, v, via) ==
    IF Len(via) = 0 THEN "ok"
    ELSE CASE via[1].op = "Some" ->
                IF v = None THEN "other" ELSE Reach(t.inner, v[1], Tail(via))
           [] via[1].op = "field" ->
                LET field == t.fields[via[1].position + 1]
                IN IF t.skip_all \/ field.skip THEN "skipped"
                   ELSE Reach(field.ty, v[field.name], Tail(via))
           [] via[1].op = "tuple_variant" ->
                LET current == VariantOf(t, v.case)
                    field == current.fields[via[1].position + 1]
                IN IF ident_to_string(current.ident) # via[1].name THEN "other"
                   ELSE IF t.skip_all \/ current.skip \/ current.skip_all \/ field.skip
                   THEN "skipped"
                   ELSE Reach(field.ty, v.p[field.name], Tail(via))
           [] via[1].op = "variant" ->
                LET current == VariantOf(t, v.case)
                    field == current.fields[via[2].position + 1]
                IN IF ident_to_string(current.ident) # via[1].name THEN "other"
                   ELSE IF t.skip_all \/ current.skip \/ current.skip_all \/ field.skip
                   THEN "skipped"
                   ELSE Reach(field.ty, v.p[field.name], Tail(Tail(via)))
Rejected == result \in {"UnknownField", "UnknownVariantOrField"}

\* C28 as stated: the name an accessor of the reflection puts into a Field
\* or Variant element is the name the derived apply matches on, so a path
\* of the builder into a field of the current case is never rejected with
\* UnknownField or UnknownVariantOrField.
BuiltIsNeverUnknown ==
    (called /\ out.op = "built" /\ Reach(ty, before, out.via) \in {"ok", "skipped"}) =>
        ~Rejected

\* C28 as amended: the same for a field that the apply logic does not leave
\* out; a path into a field or case marked keypath_mutable(skip), or of a
\* container marked skip_all, is rejected with UnknownField or
\* UnknownVariantOrField.
BuiltIsKnown ==
    (called /\ out.op = "built") =>
        /\ Reach(ty, before, out.via) = "ok" => ~Rejected
        /\ Reach(ty, before, out.via) = "skipped" => Rejected

\* a renamed field of a renamed case written through the path of the builder
BuiltIsKnownWitness ==
    /\ called /\ out.op = "built" /\ Reach(ty, before, out.via) = "ok"
    /\ keys = <<Variant("variantOne", "External"), Field("myField")>>
    /\ result = "Ok" /\ tree # before

\* ------------------------------------------------------------------------
\* C29: every call ends, and an error comes up unchanged.
\* ------------------------------------------------------------------------
\* the calls of one walk, from the call on the root down: the type and the
\* value each is made on and the suffix it is given
Frame(t, v, ks) == [ty |-> t, v |-> v, keys |-> ks]
RECURSIVE Frames(_, _, _, _)
Frames(t, v, ks, p) ==
    <<Frame(t, v, ks)>> \o
    IF Len(ks) = 0 THEN <<>>
    ELSE CASE t.k = "leaf" -> <<>>
           [] t.k = "opt" -> IF v = None THEN <<>> ELSE Frames(t.inner, v[1], ks, p)
           [] t.k = "vec" ->
                IF ks[1].type # "index" THEN <<>>
                ELSE IF ks[1].key >= Len(v) THEN <<>>
                ELSE Frames(t.elem, v[ks[1].key + 1], Tail(ks), p)
           [] t.k = "map" ->
                IF ks[1].type # "stringKey" THEN <<>>
                ELSE IF ~from_str(ks[1].key).ok THEN <<>>
                ELSE IF Len(ks) = 1 /\ p.type = "update" THEN <<>>
                ELSE IF from_str(ks[1].key).v \notin DOMAIN v THEN <<>>
                ELSE Frames(t.val, v[from_str(ks[1].key).v], Tail(ks), p)
           [] t.k = "struct" ->
                IF ks[1].type # "field" THEN <<>>
                ELSE IF t.skip_all \/ ks[1].key \notin match_arms(t) THEN <<>>
                ELSE Frames(arm_field(t, ks[1].key).ty, v[arm_field(t, ks[1].key).name],
                            Tail(ks), p)
           [] t.k = "enum" ->
                LET current == VariantOf(t, v.case)
                IN IF t.direct
                   THEN Frames(current.fields[1].ty, v.p[current.fields[1].name], ks, p)
                   ELSE IF ks[1].type # "variant" THEN <<>>
                   ELSE IF Len(ks) < 2 THEN <<>>
                   ELSE IF ks[2].type # "field" THEN <<>>
                   ELSE IF t.skip_all \/ current.skip \/ current.skip_all THEN <<>>
                   ELSE IF ks[1].key # field_name(current.ident, t, current) THEN <<>>
                   ELSE IF ks[2].key \notin match_arms(current) THEN <<>>
                   ELSE Frames(arm_field(current, ks[2].key).ty,
                               v.p[arm_field(current, ks[2].key).name],
                               SubSeq(ks, 3, Len(ks)), p)
\* the height of a value
Highest(heights) == IF heights = {} THEN 0 ELSE CHOOSE h \in heights : \A g \in heights : g <= h
RECURSIVE Height(_, _)
Height(t, v) ==
    CASE t.k = "leaf" -> 0
      [] t.k = "opt" -> IF v = None THEN 0 ELSE 1 + Height(t.inner, v[1])
      [] t.k = "vec" -> 1 + Highest({Height(t.elem, v[i]) : i \in 1..Len(v)})
      [] t.k = "map" -> 1 + Highest({Height(t.val, v[k]) : k \in DOMAIN v})
      [] t.k = "struct" ->
            1 + Highest({Height(t.fields[i].ty, v[t.fields[i].name]) : i \in 1..Len(t.fields)})
      [] t.k = "enum" ->
            LET fs == VariantOf(t, v.case).fields
            IN 1 + Highest({Height(fs[i].ty, v.p[fs[i].name]) : i \in 1..Len(fs)})
\* each step takes at least one element off the suffix, or is made by an
\* optional or a union under direct dispatch and goes into a lower value;
\* the walk is no longer than the suffix and the height of the tree allow;
\* every call of the walk returns what the last one returns
WalkDescends(walk) ==
    /\ \A i \in 1..(Len(walk) - 1) :
          \/ Len(walk[i + 1].keys) < Len(walk[i].keys)
          \/ /\ walk[i].ty.k = "opt" \/ (walk[i].ty.k = "enum" /\ walk[i].ty.direct)
             /\ walk[i + 1].keys = walk[i].keys
             /\ Height(walk[i + 1].ty, walk[i + 1].v) < Height(walk[i].ty, walk[i].v)
    /\ Len(walk) <= Len(keys) + Height(ty, before) + 1
    /\ \A i \in 1..Len(walk) :
          patch_keypath(walk[i].ty, walk[i].v, walk[i].keys, patch).res = result

\* C29 as stated: every call ends.  The walk is one recursion from the top
\* down in which each step consumes at least one element or, at an
\* optional or a union under direct dispatch, descends into a strictly
\* smaller sub-tree, so that the call ends in a successful mutation or a
\* returned error; an error of a descendant step is returned unchanged by
\* every step above it.
WalkEndsInResult ==
    called =>
        /\ WalkDescends(Frames(ty, before, keys, patch))
        /\ result \in {"Ok"} \cup KeyPathError

\* C29 as amended: the call ends in a successful mutation, a returned error
\* or a panic: of a sequence position or a Splice range out of range, or of
\* a union that is given a Variant element alone.
WalkEnds ==
    called =>
        /\ WalkDescends(Frames(ty, before, keys, patch))
        /\ result \in {"Ok"} \cup KeyPathError \cup Aborts
        /\ result \in Aborts => pc = "aborted" /\ tree = before

\* an error of a leaf two calls down, come up through a present optional
WalkEndsWitness ==
    /\ called /\ ty.k = "opt" /\ before # None
    /\ Len(Frames(ty, before, keys, patch)) = 3
    /\ result = "CannotMutatePrimitiveChildren"

\* ------------------------------------------------------------------------
\* C30: the elements a union consumes on a match.
\* ------------------------------------------------------------------------
\* the call did to the child field of the current case what the call with
\* the suffix less its first n elements does to that child alone
Consumed(n, field) ==
    LET alone == patch_keypath(field.ty, before.p[field.name],
                               SubSeq(keys, n + 1, Len(keys)), patch)
    IN result = alone.res /\ tree.case = before.case /\ tree.p[field.name] = alone.val
Matched ==
    /\ Len(keys) >= 2 /\ keys[1].type = "variant" /\ keys[2].type = "field"
    /\ At(ty, before, SubSeq(keys, 1, 2)).ok
OnUnion == called /\ ty.k = "enum" /\ Len(keys) # 0

\* C30 as stated: on a match a union in normal mode recurses into the
\* addressed child with keys[2..], two elements consumed, and a union in
\* direct-dispatch mode recurses with keys[1..], one element consumed.
UnionConsumesTwoOrOne ==
    OnUnion =>
        IF ty.direct
        THEN Consumed(1, VariantOf(ty, before.case).fields[1])
        ELSE Matched => Consumed(2, arm_field(VariantOf(ty, before.case), keys[2].key))

\* C30 as amended: a union in direct-dispatch mode recurses into the one
\* payload of the current case with keys as they are, no element consumed.
UnionConsumesTwoOrNone ==
    OnUnion =>
        IF ty.direct
        THEN Consumed(0, VariantOf(ty, before.case).fields[1])
        ELSE Matched => Consumed(2, arm_field(VariantOf(ty, before.case), keys[2].key))

\* a field of the record held by the first case of a union under direct
\* dispatch written through the path of that field alone
UnionConsumesTwoOrNoneWitness ==
    /\ OnUnion /\ ty.direct /\ before.case = "First"
    /\ keys = <<Field("a")>>
    /\ result = "Ok" /\ tree.p["0"].a # before.p["0"].a

====
